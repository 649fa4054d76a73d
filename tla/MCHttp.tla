-------------------------------- MODULE MCHttp --------------------------------
(* Small instances of Http for TLC. *)
EXTENDS Http, TLC

CONSTANTS f1, f2, t1, s1

\* A file with a line as long as MAXBUF that does not end, and an empty file.
MCOrig == (f1 :> <<Byte(1), Byte(2)>>) @@ (f2 :> <<>>)

MCAsks == (t1 :> {<<"GET", f1>>}) @@ (s1 :> {<<"GET", f2>>, <<"PUT", f1>>})

\* f1 can become shorter or vanish.
MCVersions == (f1 :> {<<NL>>, Absent}) @@ (f2 :> {})

MCErrorBody == <<Byte(4)>>

MCGarbage == {Byte(2)}
=============================================================================
