-------------------------------- MODULE MCBoot --------------------------------
(* The builds of Boot that TLC checks. *)
EXTENDS Boot

Build(i, n, interrupts, before, t, d) ==
  [internal |-> i, spi |-> n, irq |-> interrupts, isr |-> before, toe |-> t, deinit |-> d]

\* The TOE on its W5500, running or torn down; and without the TOE the internal EMAC,
\* two SPI modules, or all three, each torn down.
MCBuilds ==
  {Build(FALSE, 1, TRUE, "none", TRUE, d) : d \in BOOLEAN} \cup
  {Build(i, n, interrupts, before, FALSE, TRUE) :
     i \in BOOLEAN, n \in {1, 2}, interrupts \in BOOLEAN, before \in {"none", "other"}} \cup
  {Build(TRUE, 0, FALSE, "none", FALSE, TRUE)}
===============================================================================
