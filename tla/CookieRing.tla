----------------------------- MODULE CookieRing -----------------------------
(* What a fortune file promises: cookies are only added, and each read      *)
(* returns the one after the one read last, beginning again at the end.     *)
EXTENDS Naturals, Sequences

VARIABLES
    cookies,     \* all cookies, oldest first
    cursor,      \* how many of them come before the next one to be read
    out          \* the cookie read last

vars == <<cookies, cursor, out>>

Init == cookies = <<>> /\ cursor = 0 /\ out = <<>>

Put ==
    /\ Len(cookies') = Len(cookies) + 1
    /\ SubSeq(cookies', 1, Len(cookies)) = cookies
    /\ UNCHANGED <<cursor, out>>

Get ==
    /\ cursor < Len(cookies)
    /\ out' = cookies[cursor + 1]
    /\ cursor' = cursor + 1
    /\ UNCHANGED cookies

Rewind ==
    /\ cursor = Len(cookies)
    /\ cursor' = 0
    /\ UNCHANGED <<cookies, out>>

Next == Put \/ Get \/ Rewind

Spec == Init /\ [][Next]_vars
=============================================================================
