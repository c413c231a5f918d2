------------------------------ MODULE SectorScan ------------------------------
(***************************************************************************)
(* What callers of disk_process_sectors rely on: the sectors of a range    *)
(* are dealt with from the first to the last, none left out and none       *)
(* twice; each one that cannot be accessed, and no other, is reported,     *)
(* once and in that order; the scan ends at the end of the range, or       *)
(* earlier when a callback asks for it or when nobody listens to reports.  *)
(***************************************************************************)
EXTENDS Integers, Sequences

CONSTANTS OK, FAILED, CANCEL

VARIABLES first, num,  \* the range: first sector, number of sectors
          failing,     \* the sectors that cannot be accessed
          done,        \* how many have been dealt with
          reported,    \* the failing ones, in the order of their reports
          status       \* "running", or what was returned

vars == <<first, num, failing, done, reported, status>>

Init == /\ first \in Nat /\ num \in Nat /\ failing \subseteq Nat
        /\ done = 0 /\ reported = << >> /\ status = "running"

(* The progress callback may cancel after any step.                        *)
GoOnOrCancel == status' = status \/ status' = CANCEL

(* Several sectors at once, all of them good.                              *)
Pass == /\ status = "running"
        /\ done' \in done .. num
        /\ \A s \in first + done .. first + done' - 1 : s \notin failing
        /\ GoOnOrCancel
        /\ UNCHANGED <<first, num, failing, reported>>

(* A failing sector is reported; the callback may stop the scan there.     *)
Report == /\ status = "running" /\ done < num
          /\ first + done \in failing
          /\ reported' = Append(reported, first + done)
          /\ \/ done' = done + 1 /\ GoOnOrCancel
             \/ done' = done /\ status' = FAILED
          /\ UNCHANGED <<first, num, failing>>

(* A failing sector and nobody to report it to, or no memory to begin.     *)
GiveUp == /\ status = "running"
          /\ done = 0 \/ (done < num /\ first + done \in failing)
          /\ status' = FAILED
          /\ UNCHANGED <<first, num, failing, done, reported>>

Finish == /\ status = "running" /\ done = num
          /\ status' = OK
          /\ UNCHANGED <<first, num, failing, done, reported>>

Next == Pass \/ Report \/ GiveUp \/ Finish

Spec == Init /\ [][Next]_vars
===============================================================================
