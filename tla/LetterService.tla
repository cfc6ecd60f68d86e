---------------------------- MODULE LetterService ----------------------------
(***************************************************************************)
(* What the bakery server promises its clients, without tickets in memory, *)
(* threads or messages: tickets are issued one after the other, and the    *)
(* letters 'a'..'z', 'a'.. are handed out in the order of the tickets.     *)
(***************************************************************************)
EXTENDS Naturals

CONSTANTS Slots, Letters

VARIABLES issued,  \* tickets drawn
          letter,  \* letter[s]: the letter of ticket s, 0 before it is served
          next     \* the letter to be handed out next

vars == <<issued, letter, next>>

Ticket == 0..(Slots - 1)

Init ==
  /\ issued = 0
  /\ letter = [s \in Ticket |-> 0]
  /\ next = 1

Issue ==
  /\ issued' = issued + 1
  /\ UNCHANGED <<letter, next>>

\* The first ticket that has no letter gets the next one.
Serve(s) ==
  /\ s < issued
  /\ letter[s] = 0
  /\ \A t \in Ticket : t < s => letter[t] # 0
  /\ letter' = [letter EXCEPT ![s] = next]
  /\ next' = IF next = Letters THEN 1 ELSE next + 1
  /\ UNCHANGED issued

Next == Issue \/ \E s \in Ticket : Serve(s)

Spec == Init /\ [][Next]_vars
=============================================================================
