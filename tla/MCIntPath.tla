----------------------------- MODULE MCIntPath ------------------------------
(***************************************************************************)
(* A small instance of IntPath for TLC.                                    *)
(***************************************************************************)
EXTENDS IntPath

\* One kind of work at a time, then two together.  Until it expires the
\* watchdog changes nothing, so that most runs leave it off.
Load(rx, tx, audio, watchdog, busy) ==
    [rx |-> rx, tx |-> tx, audio |-> audio, watchdog |-> watchdog, slack |-> busy]

SmallLoads == {Load(3, 0, 0, 0, 0), Load(0, 2, 0, 0, 0), Load(0, 0, 2, 0, 1),
               Load(1, 1, 0, 0, 0), Load(1, 0, 1, 0, 0), Load(0, 1, 0, 2 * Period, 0)}
=============================================================================
