------------------------------- MODULE MCPodString -----------------------------
(***************************************************************************)
(* Four bytes of characters of one (0 is NUL), two and three bytes.        *)
(***************************************************************************)
EXTENDS PodString

Nul == <<0>>
Ascii == <<1>>
Two == <<2, 9>>
Three == <<3, 9, 9>>
MCChars == {Nul, Ascii, Two, Three}

MCOffered ==
    {<< >>, <<Nul>>, <<Ascii>>, <<Two>>, <<Three>>, <<Ascii, Two>>, <<Three, Two>>,
     <<Three, Three>>}
=============================================================================
