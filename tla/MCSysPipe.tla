----------------------------- MODULE MCSysPipe ------------------------------
(***************************************************************************)
(* Small instances of SysPipe for TLC: which tasks read and write, and the *)
(* lengths they ask for.                                                   *)
(***************************************************************************)
EXTENDS SysPipe

NoTasks == {}
Task0   == {0}
Task1   == {1}
Task01  == {0, 1}
Task12  == {1, 2}

Lens1   == {1}
Lens2   == {2}
Lens8   == {8}
Lens012 == {0, 1, 2}
Lens04  == {0, 1, 4}
Lens14  == {1, 4}
Lens15  == {1, 5}
Lens24  == {2, 4}

\* A write returns, and its bytes get to the reader.
WritesFinish == WritesReturn /\ BytesDelivered
=============================================================================
