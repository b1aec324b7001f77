------------------------------- MODULE MCPeer -------------------------------
(* The messages TLC lets the peer write. *)
EXTENDS Peer

Caps(secure, plugin) ==
  <<0, IF secure THEN 128 ELSE 1, IF plugin THEN 8 ELSE 1, 3>>

Str(s)  == [type |-> FieldTypeString, flag |-> 0, null |-> FALSE, val |-> s]
Long(s) == [type |-> FieldTypeLongLong, flag |-> 128, null |-> FALSE, val |-> s]
Dbl(s)  == [type |-> FieldTypeDouble, flag |-> 0, null |-> FALSE, val |-> s]
Other   == [type |-> 1, flag |-> 0, null |-> FALSE, val |-> <<1>>]
Null(q) == [q EXCEPT !.null = TRUE, !.val = <<>>]

Long8 == <<1, 2, 3, 4, 5, 6, 7, 8>>
\* From its eighth byte on this text reads as a length of 2^21.
Tricky == Fill(7) \o <<253, 0, 0, 32>>
Lists ==
  {<<>>, <<Str(<<>>)>>, <<Str(<<65, 66>>), Str(<<>>)>>, <<Long(Long8)>>,
   <<Dbl(Long8), Str(<<65>>)>>, <<Str(Fill(300)), Long(Long8)>>,
   [j \in 1 .. 8 |-> Str(<<j>>)], [j \in 1 .. 9 |-> Str(<<j>>)],
   <<Str(<<65>>), Other>>, <<Null(Str(<<>>)), Str(<<66>>)>>,
   <<Str(<<65>>), Null(Str(<<>>)), Str(<<66>>)>>,
   <<Null(Long(<<>>)), Str(Tricky), Str(<<>>)>>}

MCMessages ==
  [kind : {"error"}, code : {<<21, 4>>}, state : {<<52, 50, 48, 48, 48>>},
   text : {<<65>>, <<65, 66, 67>>}]
  \cup [kind : {"ok"}, rows : {0, 250, 251, 255, 65535, 65536, 16777215, 16777216},
        insert : {0, 252, 300}]
  \cup [kind : {"hello"}, version : {10}, server : {<<>>, <<56, 46>>},
        id : {<<9, 0, 1, 255>>}, seed : {0, 21, 30},
        caps : {Caps(s, p) : s \in BOOLEAN, p \in BOOLEAN}, plugin : {<<112, 113>>}]
  \cup [kind : {"login"}, caps : {Caps(TRUE, TRUE)}, charset : {33}]
  \cup [kind : {"query"}, type : {ComQuery, ComStmtPrepare}, text : {<<>>, <<83, 0, 84>>}]
  \cup [kind : {"prepared"}, id : {<<1, 0, 0, 9>>}, columns : {2}, params : {0, 258, 65535}]
  \cup [kind : {"execute"}, id : {<<1, 0, 0, 9>>}, typed : BOOLEAN, params : Lists]
  \cup [kind : {"count"}, n : {0, 1, 7, 8, 9, 255, 256} \cup 65519 .. 65535]
=============================================================================
