---------------------------- MODULE MCTurboSite ----------------------------
(* A site of four files and two directories, of which two files have the   *)
(* same content, and what "tar -c ." and "tar -c *" make of it.            *)
EXTENDS TurboSite

A == <<"a.html">>
Js == <<"js">>
Lib == <<"js", "lib">>
B == <<"js", "lib", "b.js">>
C == <<"js", "z.js">>
D == <<"z.js">>

MCChildren == (Top :> <<A, Js, D>>) @@ (Js :> <<Lib, C>>) @@ (Lib :> <<B>>)

MCContent == (A :> "x") @@ (B :> "y") @@ (C :> "z") @@ (D :> "y")

Dot(name) == <<".">> \o name

MCForeign ==
    {<<Entry("dir", <<".">>, NoFile), Entry("file", Dot(A), "x"), Entry("end", Top, NoFile)>>,
     <<Entry("file", D, "y"), Entry("file", A, "x"), Entry("dir", Js, NoFile),
       Entry("file", C, "z"), Entry("file", B, "y"), Entry("end", Top, NoFile)>>}

ByName == <<PathOf(A), PathOf(B), PathOf(C), PathOf(D)>>
=============================================================================
