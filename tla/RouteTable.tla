----------------------------- MODULE RouteTable -----------------------------
(***************************************************************************)
(* Multi-hop routes as multi_hop_config.go checks and searches them: a     *)
(* configuration is a named list of hops, each from one kernel to the      *)
(* next.  Addresses and ports are left out: they go with the kernels.      *)
(***************************************************************************)
EXTENDS Naturals, Sequences, FiniteSetsExt

CONSTANT NoKernel      \* the empty string where the id of a kernel is expected

Config(route, hops, enabled) == [route |-> route, hops |-> hops, enabled |-> enabled]

\* The hops along a list of kernels
Along(path) == [i \in 1 .. Len(path) - 1 |-> [from |-> path[i], to |-> path[i + 1]]]

\* ValidateConfig: there are hops, and each starts where the one before it ends
Valid(c) ==
  /\ c.hops # <<>>
  /\ \A i \in 2 .. Len(c.hops) : c.hops[i - 1].to \in {NoKernel, c.hops[i].from}

\* What SaveConfig asks of every hop
Complete(c) ==
  /\ c.hops # <<>>
  /\ \A i \in DOMAIN c.hops : NoKernel \notin {c.hops[i].from, c.hops[i].to}

\* The hops of c from which a kernel's packets for target can go on
Onward(c, here, target) ==
  {i \in DOMAIN c.hops : /\ c.hops[i].from = here
                         /\ \E j \in i .. Len(c.hops) : c.hops[j].to = target}

\* GetNextHop: the first such hop of an enabled route.  With several routes it is a matter of
\* the order of a Go map which one is found; none is the empty set
NextHops(cs, here, target) ==
  {c.hops[Min(Onward(c, here, target))].to :
     c \in {c \in cs : c.enabled /\ here # target /\ Onward(c, here, target) # {}}}

Arriving(c, here) == {i \in DOMAIN c.hops : c.hops[i].to = here}

\* mutant: the hop's own end
PreviousHopsSame(cs, here) ==
  {here : c \in {c \in cs : c.enabled /\ Arriving(c, here) # {}}}

\* GetPreviousHop: the end of the hop before the one that arrives here.  At the end of the
\* first hop there is none, although it starts somewhere
PreviousHops(cs, here) ==
  {LET i == Min(Arriving(c, here)) IN IF i > 1 THEN c.hops[i - 1].to ELSE NoKernel :
     c \in {c \in cs : c.enabled /\ Arriving(c, here) # {}}}
=============================================================================
