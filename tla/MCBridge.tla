-------------------------------- MODULE MCBridge -------------------------------
(* Small instances of Bridge for TLC. *)
EXTENDS Bridge

CONSTANTS lights, lamps, bulb, plug, a, b, c, d, e, f, g, h, on, off

ASSUME CallersAreApart == Apart
ASSUME CallersAreSeparate == Separate /\ Unhindered
ASSUME Surroundings == \A env \in Environments : Prompt(env) \/ Complete(env)

Req(kind, from, to) == [kind |-> kind, from |-> from, to |-> to]

(* What a reconcile asks for again and again: names that are edited, a group  *)
(* that comes and goes, a member or options that change, a health check. The *)
(* other caller is at the same kind of work for its own device or group, whose *)
(* id has beginnings that are no group's.                                     *)
Lives ==
  {<<{Req("rename", 1, a), Req("rename", 1, b)}, Req("rename", 214, d)>>,
   <<{Req("rename", bulb, b), Req("rename", bulb, g)}, Req("rename", plug, d)>>,
   <<{Req("add", 1, a), Req("remove", 1, None)}, Req("remove", 214, None)>>,
   <<{Req("add", None, b)}, Req("add", None, d)>>,
   <<{Req("member_add", 1, bulb), Req("member_remove", 1, bulb)}, Req("member_add", 214, plug)>>,
   <<{Req("options", 1, on), Req("options", 1, off)}, Req("options", 214, on)>>,
   <<{Req("bridge", None, None)}, Req("options", 214, on)>>}
MCWorks == {[x \in Callers |-> IF x = lights THEN life[1] ELSE {life[2]}] : life \in Lives}

(* A third group, which others work on. *)
MCForeign == {Req("rename", 3, f)}
MCExisting ==
  [x \in Entities |-> CASE x = 1 -> a [] x = 214 -> c [] x = 3 -> e
                     [] x = bulb -> g [] x = plug -> h [] OTHER -> None]
================================================================================
