-------------------------------- MODULE Calls --------------------------------
(***************************************************************************)
(* What Python promises of functions and generators.  A call is at a place *)
(* of its code and, with one place for each of them, within the loops and  *)
(* withs it has entered.  The calls that are under way are a stack, and    *)
(* only the top one goes on.  A generator that yields sleeps, with all its *)
(* places, until it is asked again and goes on top of whoever asks, who    *)
(* need not be the one who asked before.                                   *)
(***************************************************************************)
EXTENDS Naturals, SequencesExt

CONSTANTS
  Call,    \* names of calls
  Place    \* places of code: numbers from 0, where a call begins

VARIABLES
  running,   \* the calls under way, each with its places, the innermost last
  asleep     \* generators that have not begun or have yielded: their places

-----------------------------------------------------------------------------
Begun(c) == [call |-> c, at |-> <<0>>]

Under(s) == {s[k].call : k \in DOMAIN s}

IsNew(c) == c \notin Under(running) \cup DOMAIN asleep

Top == Last(running)

\* The top call goes on to place p of its innermost loop.
MovedTo(p) == [running EXCEPT ![Len(running)].at[Len(Top.at)] = p]

\* What nothing refers to is forgotten when a step of the machine ends.
Sleeping(s) == asleep' \in {Restrict(s, kept) : kept \in SUBSET DOMAIN s}

Init ==
  /\ \E c \in Call : running = <<Begun(c)>>
  /\ asleep = << >>

Move ==
  /\ \E p \in Place : running' = MovedTo(p)
  /\ Sleeping(asleep)

\* A loop is entered at the next place; the one outside of it waits behind it.
Open ==
  /\ \E p \in Place :
       running' = [MovedTo(p) EXCEPT ![Len(running)].at = Append(@, Last(Top.at) + 1)]
  /\ Sleeping(asleep)

Close ==
  /\ Len(Top.at) > 1
  /\ running' = [running EXCEPT ![Len(running)].at = Front(@)]
  /\ Sleeping(asleep)

\* Calls begin on top of the one that makes them: a class with its bases.
Begin ==
  LET new == Len(running) + 1 .. Len(running')
  IN  /\ new # {}
      /\ \A k \in new : running'[k] = Begun(running'[k].call) /\ IsNew(running'[k].call)
      /\ \A j, k \in new : running'[j].call = running'[k].call => j = k
      /\ \E p \in Place : IsPrefix(MovedTo(p), running')
      /\ Sleeping(asleep)

Create ==
  /\ \E p \in Place : running' = MovedTo(p)
  /\ \E c \in Call : IsNew(c) /\ Sleeping([d \in {c} |-> <<0>>] @@ asleep)

\* A call ends outside of its loops; the constructor of a class begins.
End ==
  /\ Len(Top.at) = 1
  /\ \/ running' = Front(running)
     \/ \E c \in Call : IsNew(c) /\ running' = Append(Front(running), Begun(c))
  /\ Sleeping(asleep)

Wake ==
  /\ \E g \in DOMAIN asleep :
       /\ running' = Append(running, [call |-> g, at |-> asleep[g]])
       /\ Sleeping(Restrict(asleep, DOMAIN asleep \ {g}))

Sleep ==
  /\ running' = Front(running)
  /\ Sleeping([d \in {Top.call} |-> Top.at] @@ asleep)

\* A generator that has ended begins anew.
Rewind ==
  /\ \E c \in Call : IsNew(c) /\ asleep' = [d \in {c} |-> <<0>>] @@ asleep
  /\ UNCHANGED running

\* An exception that nothing catches.
Exit ==
  /\ running' = << >>
  /\ Sleeping(asleep)

Forget ==
  /\ Sleeping(asleep)
  /\ UNCHANGED running

Next ==
  \/ running # << >> /\ (Move \/ Open \/ Close \/ Begin \/ Create \/ End \/ Wake
                           \/ Sleep \/ Rewind \/ Exit)
  \/ Forget

Spec == Init /\ [][Next]_<<running, asleep>>
=============================================================================
