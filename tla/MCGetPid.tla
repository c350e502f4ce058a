------------------------------ MODULE MCGetPid ------------------------------
(***************************************************************************)
(* GetPid for TLC, under names that can stand beside those of Process.     *)
(***************************************************************************)
EXTENDS Integers, Sequences

CONSTANTS MaxProcess, MaxPid     \* MAX_PROCESS and MAX_PID

VARIABLES linked,                \* proc_list
          last_pid, next_safe,
          scanning,              \* pc
          le

GetPid == INSTANCE GetPid WITH
    MAX_PROCESS <- MaxProcess, MAX_PID <- MaxPid,
    proc_list <- linked, pc <- scanning

\* The static_assert of get_pid.
ASSUME GetPidAssumption == GetPid!PidBounds

GetPidSpec == GetPid!Spec

-----------------------------------------------------------------------------
\* GetPid: no two linked processes have the same pid.
UniquePids == GetPid!UniquePids

\* GetPid: what a call leaves behind or works with is always right, so that a
\* pid is given out from the cache or by the scan only if nobody has it.
CacheKept == GetPid!CacheKept

\* GetPid: the scan ends although goto repeat restarts it.
ScanTerminates == GetPid!ScanTerminates
=============================================================================
