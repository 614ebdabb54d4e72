----------------------------- MODULE MCSharedSpi -----------------------------
(* Values of SharedSpi's constants for TLC. *)
EXTENDS SharedSpi, TLC

\* Two registers whose addresses differ in every byte, so that any mixture of two
\* headers is the address of neither.
MCBytes   == {0, 1}
MCHeaders == {<<0, 1, 0>>, <<1, 0, 1>>}
MCVals    == {0, 1}

Access(k, h, v) == [kind |-> k, hdr |-> h, val |-> v]
MCOps == {Access("readbyte", <<0, 1, 0>>, 0), Access("write", <<0, 1, 0>>, 1),
          Access("readburst", <<1, 0, 1>>, 0), Access("write", <<1, 0, 1>>, 1)}

\* ioLibrary's tasks are interchangeable (used where no liveness is checked).
MCSymmetry == Permutations(IoTasks)
===============================================================================
