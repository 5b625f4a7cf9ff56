----------------------------- MODULE MCAliases -----------------------------
(* Instances of Aliases for TLC. *)
EXTENDS Aliases

CONSTANTS c1, c2, local, remote, cmd

U(name) == [user |-> [name |-> name, drops |-> FALSE, suffix |-> None], dom |-> local]
Dotted(addr) == [addr EXCEPT !.user.drops = TRUE]
Plus(addr) == [addr EXCEPT !.user.suffix = "x"]
R(addr) == [addr EXCEPT !.dom = remote]

Pipe == [type |-> "pipe", addr |-> cmd]
Forward(addr) == [type |-> "forward", addr |-> addr]

(* "ana" is aliased, with and without a suffix; "bob" has a mailbox; "eva" *)
(* is aliased to herself by way of "leo"; nobody else is known.            *)
Ana == U("ana")
Bob == U("bob")
Eva == U("eva")
Leo == U("leo")

MCUsers == {Bob}

Plain ==
  Ana :> <<EMAIL(Bob), Forward(R(Ana)), EMAIL(Plus(Ana))>> @@ Plus(Ana) :> <<EMAIL(R(Bob))>> @@
  Eva :> <<EMAIL(Leo)>> @@ Leo :> <<EMAIL(Eva)>>

WithCatchAll ==
  Ana :> <<EMAIL(Leo)>> @@ Leo :> <<EMAIL(Plus(Bob)), Forward(Star(remote))>> @@
  Star(local) :> <<EMAIL(Star(remote)), EMAIL(Bob)>>

MCFiles == {Plain, WithCatchAll}

(* The hook looks at the address as it was given. *)
MCHook == Dotted(Ana) :> <<Pipe>> @@ Ana :> <<EMAIL(R(Leo))>>

(* Two spellings of one key. *)
TwoSpellings == {Ana, Dotted(Ana)}

MCAsked == {Ana, Dotted(Plus(Ana)), Dotted(Ana), Plus(Bob), Eva, U("zoe")}
=============================================================================
