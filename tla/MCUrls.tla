-------------------------------- MODULE MCUrls --------------------------------
(* Instances of Urls for TLC. *)
EXTENDS Urls

(* http, hTTPs, ftp *)
MCProtocols == {Http, <<104, 84, 84, 80, 115>>, <<102, 116, 112>>}

(* h, http, 443, and the delimiters *)
MCPieces == {<<104>>, Http, Port443} \cup
            {<<d>> : d \in {Space, Hash, Slash, Colon, Question}}

(* The ends of the ranges of char and of the classes of urlencode. *)
MCChars == {-128, -1, 0, 32, 35, 37, 45, 47, 48, 57, 58, 63, 65, 90, 122, 126, 127}
=============================================================================
