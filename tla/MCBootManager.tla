---------------------------- MODULE MCBootManager -----------------------------
(* A disk of a dozen sectors with the boot manager in the first ones.      *)
EXTENDS BootManager

P(type, tag, orig, rel, num) ==
  [type |-> type, tag |-> tag, orig |-> orig, rel |-> rel, num |-> num]
Adv == P(Manager, 0, 0, 1, 1)

I(kind, tag, show) == [kind |-> kind, tag |-> tag, show |-> show]

(* Partitions with gaps between them, and behind them; and partitions that *)
(* leave no gap but want the same row of the MBR.                          *)
Gaps == <<Adv, P("FAT-16", 1, 0, 2, 2), P("Linux", 2, 1, 5, 2),
          P("Linux", 0, 1, 8, 2)>>
Dense == <<Adv, P("FAT-16", 1, 2, 3, 3), P("Linux", 2, 2, 6, 4)>>
Long == <<I("empty", 0, "One"), I("part", 1, "Next"), I("part", 3, "One"),
          I("part", 2, "Last3")>>
Short == <<I("part", 2, "Last"), I("floppy", 1, "Prev"), I("next", 0, "One"),
           I("invalid", 0, "One")>>

SomeSetups == {[rows |-> Gaps, menu |-> Long, fixed |-> 0, ignore |-> TRUE],
               [rows |-> Gaps, menu |-> Short, fixed |-> 2, ignore |-> FALSE],
               [rows |-> Dense, menu |-> Long, fixed |-> 0, ignore |-> FALSE]}
OneSize == {[type |-> "Linux", num |-> 1]}
===============================================================================
