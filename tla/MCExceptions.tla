----------------------------- MODULE MCExceptions -----------------------------
(***************************************************************************)
(* Instances of Exceptions: pins a, b, x and y, a clock c and a net.       *)
(***************************************************************************)
EXTENDS Exceptions

CONSTANTS a, b, x, y, c, net

MCId ==
  [o \in Objects |-> CASE o = a -> 1 [] o = b -> 2 [] o = x -> 4 [] o = y -> 8
                      [] OTHER -> 16]

Mk(kind, minMax, value, from, thrus, to) ==
  [op |-> "make", kind |-> kind, minMax |-> minMax, value |-> value,
   from |-> from, thrus |-> thrus, to |-> to]

Reset(minMax, from, thrus, to) ==
  [op |-> "reset", minMax |-> minMax, from |-> from, thrus |-> thrus, to |-> to]

(* Multicycle paths that override, split and merge; false paths with thrus *)
(* that merge; path delays with one point; group paths; every way to       *)
(* reset.  Path delays have one point, a net is in a first thru only, and  *)
(* what may be reset or overridden has one thru at most.                   *)
MCCommands ==
  {Mk("multi", "max", v, f, <<>>, t) :
     v \in {2, 3}, f \in {{a}, {a, b}}, t \in {{x}, {x, y}}}
  \cup {Mk("multi", "all", 2, {a}, <<>>, {x}), Mk("multi", "max", 2, {a, c}, <<>>, {x})}
  \cup {Mk("false", "all", 0, f, <<{b}>>, {}) : f \in {{a}, {x}}}
  \cup {Mk("false", "all", 0, {}, <<{a}, {t}>>, {}) : t \in {b, y}}
  \cup {Mk("false", "all", 0, {}, <<{net}>>, {y})}
  \cup {Mk("delay", "max", v, f, <<>>, {}) : v \in {1, 2}, f \in {{a}, {a, b}}}
  \cup {Mk("delay", "max", 1, {}, <<>>, {x}), Mk("group", "all", 1, {a}, <<>>, {x})}
  \cup {Reset("all", {a}, <<>>, {}), Reset("all", {}, <<>>, {x}), Reset("all", {}, <<{b}>>, {}),
        Reset("max", {a}, <<>>, {x}), Reset("all", {}, <<{net}>>, {}),
        Mk("group", "all", 1, {b}, <<>>, {x}),
        [op |-> "clock", clock |-> c]}

==============================================================================
