--------------------------- MODULE ChannelLifetime ---------------------------
(***************************************************************************)
(* What a caller of the direct channel pool relies on, with no map, no     *)
(* counter and no eviction order: a channel is made open, may be condemned *)
(* and is closed once; it is shared by the callers that borrowed it while  *)
(* it was open, and is never closed under one of them.  A condemned        *)
(* channel closes in the step in which its last caller leaves.             *)
(***************************************************************************)
CONSTANTS Channels, Callers, None

VARIABLES
    stage, \* stage of each channel's life
    uses   \* the channel each caller uses, or None

vars == <<stage, uses>>

Stages == {"unmade", "open", "condemned", "closed"}

TypeOK ==
    /\ stage \in [Channels -> Stages]
    /\ uses \in [Callers -> Channels \cup {None}]

Init ==
    /\ stage = [c \in Channels |-> "unmade"]
    /\ uses = [u \in Callers |-> None]

\* A caller joins an open channel, or the one made for it.
Borrow(u, c) ==
    /\ uses[u] = None
    /\ stage[c] \in {"unmade", "open"}
    /\ stage' = [stage EXCEPT ![c] = "open"]
    /\ uses' = [uses EXCEPT ![u] = c]

\* The stages a made channel may move to, given who uses it afterwards.
MayBecome(c, s) ==
    CASE stage[c] = "open" -> s \in {"open", "condemned", "closed"}
      [] stage[c] = "condemned" -> s \in {"condemned", "closed"}
      [] OTHER -> s = stage[c]

Retire ==
    /\ stage' \in [Channels -> Stages]
    /\ \A c \in Channels :
          /\ MayBecome(c, stage'[c])
          /\ stage'[c] # stage[c] =>
                (stage'[c] = "closed" <=> \A u \in Callers : uses'[u] # c)
          /\ stage'[c] = "condemned" => \E u \in Callers : uses'[u] = c

\* A caller leaves; channels may be condemned, and unused ones closed.
GiveBack(u) ==
    /\ uses[u] # None
    /\ uses' = [uses EXCEPT ![u] = None]
    /\ Retire

\* Channels are condemned or closed from outside.
Condemn == UNCHANGED uses /\ Retire

Next ==
    \/ \E u \in Callers, c \in Channels : Borrow(u, c)
    \/ \E u \in Callers : GiveBack(u)
    \/ Condemn

Spec == Init /\ [][Next]_vars
=============================================================================
