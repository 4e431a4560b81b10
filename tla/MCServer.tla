------------------------------ MODULE MCServer ------------------------------
(* Discoveries: nothing; two applications, one behind authentication; the  *)
(* first changed, the second to one that cannot be mounted; the second to  *)
(* one whose inner backend has no options.  IDs are unique.                *)
EXTENDS Server

Host == [kind |-> "hostname", text |-> "a.example"]
NoPattern == [kind |-> "hostname_regexp", text |-> WrongOpts]

App(id, frontend, backend) ==
    [id |-> id, frontends |-> {frontend}, backend |-> backend]

Redirect(to) == <<[kind |-> "redirect", opts |-> to]>>
Guarded(opts) ==
    <<[kind |-> "auth_v0", opts |-> "t"], [kind |-> "turbocharger", opts |-> opts]>>

Works == {App("a", Host, Redirect("1")), App("b", Host, Guarded("m"))}
Unmounted == {App("a", Host, Redirect("2")), App("b", NoPattern, Guarded("m"))}
Panics == {App("a", Host, Redirect("2")), App("b", Host, Guarded(NilOpts))}

MCWorlds == {{}, Works, Unmounted, Panics}
=============================================================================
