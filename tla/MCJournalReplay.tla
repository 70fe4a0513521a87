-------------------------- MODULE MCJournalReplay --------------------------
(***************************************************************************)
(* Instances of JournalReplay for TLC: three handlers.                     *)
(*   pager     fetches two pages, the second from the cursor the first one *)
(*             left in memory, asks, sends, asks again                     *)
(*   fallback  writes, or asks for it to be written when it may not or     *)
(*             cannot                                                      *)
(*   noter     notes in memory whether its write succeeded, and asks       *)
(***************************************************************************)
EXTENDS JournalReplay

CONSTANTS page, write, v1, v2

Calls(id, arg) == [kind |-> "call", id |-> id, arg |-> arg]
Notes(arg) == [kind |-> "note", id |-> page, arg |-> arg]
Asking(arg) == [kind |-> "gate", id |-> write, arg |-> arg]
Return == [kind |-> "return", id |-> page, arg |-> v1]
Raise == [kind |-> "raise", id |-> page, arg |-> v1]

Given(o) == IF o \in Value THEN o ELSE v1

Pager(s) ==
  IF \E i \in DOMAIN s : s[i] \in Errors THEN Raise
  ELSE CASE Len(s) = 0 -> Calls(page, v1)
         [] Len(s) = 1 -> Calls(page, s[1])
         [] Len(s) = 2 -> Asking(s[2])
         [] Len(s) = 3 -> Calls(write, s[3])
         [] Len(s) = 4 -> Asking(v1)
         [] OTHER -> Return

Fallback(s) ==
  CASE Len(s) = 0 -> Calls(write, v1)
    [] Len(s) = 1 /\ s[1] \in Errors -> Asking(v1)
    [] Len(s) = 1 /\ s[1] \in Value -> Calls(page, s[1])
    [] Len(s) = 2 /\ s[1] \in Errors -> Calls(page, Given(s[2]))
    [] OTHER -> Return

Noter(s) ==
  CASE Len(s) = 0 -> Calls(write, v1)
    [] Len(s) = 1 -> Notes(IF s[1] \in Errors THEN v2 ELSE v1)
    [] Len(s) = 2 -> Asking(Given(s[2]))
    [] Len(s) = 3 -> Calls(page, v1)
    [] OTHER -> Return

MCAsks(h, s) ==
  CASE h = "pager" -> Pager(s) [] h = "fallback" -> Fallback(s) [] OTHER -> Noter(s)
=============================================================================
