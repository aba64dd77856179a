------------------------------ MODULE StallCheck ------------------------------
(***************************************************************************)
(* The watchdog's stall test of one client CCB (CheckForStalledCCB in      *)
(* server/devices/rgxccb.c) running beside the thread that submits to the  *)
(* CCB and the firmware that reads it.  The offsets are sampled under the  *)
(* grow lock; the byte count and the size are read after the lock is gone. *)
(***************************************************************************)
EXTENDS ClientCCB

VARIABLES
  wdPc, wrapMask, sampledR, sampledDp, sampledW,   \* the watchdog, its locals
  LastROff, LastWOff, LastByteCount,   \* kept in the RGX_CLIENT_CCB
  reported,                             \* the last test returned CCCB_STALLED
  \* history: the firmware consumed something since the previous sample, and
  \* between the last two samples; the CCB was tested before
  moved, movedBefore, tested

wdVars == <<wdPc, wrapMask, sampledR, sampledDp, sampledW, LastROff, LastWOff,
            LastByteCount, reported, moved, movedBefore, tested>>
allVars == <<vars, wdVars>>

(* RGXCreateCCB allocates the structure without clearing it and never sets *)
(* ui32LastWOff: it may hold anything (two values here).  ui32LastROff is set to the last    *)
(* byte of the ring, where no command starts: no offset of the model.      *)
StallInit ==
  /\ Init
  /\ wdPc = "idle"
  /\ wrapMask = 0
  /\ sampledR = 0
  /\ sampledDp = 0
  /\ sampledW = 0
  /\ LastROff = -1
  /\ LastWOff \in {0, InitSize - 1}
  /\ LastByteCount = 0
  /\ reported = FALSE
  /\ moved = FALSE
  /\ movedBefore = FALSE
  /\ tested = FALSE

(* The grow lock keeps a grow away from the sample; the mutant goes without. *)
TakeLock_None == growLock' = growLock
TakeLock == growLock = "free" /\ growLock' = "watchdog"

SampleMask ==
  /\ wdPc = "idle"
  /\ TakeLock
  /\ wrapMask' = Size - 1
  /\ wdPc' = "sample"
  /\ UNCHANGED <<hostVars, mem, fwVars, pc, callVars, cmdOffset, history, sampledR,
                 sampledDp, sampledW, LastROff, LastWOff, LastByteCount, reported, moved,
                 movedBefore, tested>>

(* Where the firmware's dependency offset may be: it is ahead of the read  *)
(* offset, no further than the last write offset the firmware was given.   *)
DepOffsets ==
  IF ReadOffset <= fwWriteOffset
    THEN ReadOffset .. fwWriteOffset
    ELSE (ReadOffset .. fwWrapMask) \cup (0 .. fwWriteOffset)

SampleOffsets ==
  /\ wdPc = "sample"
  /\ sampledR' = ReadOffset
  /\ sampledDp' \in DepOffsets
  /\ sampledW' = HostWriteOffset
  /\ growLock' = IF growLock = "watchdog" THEN "free" ELSE growLock
  /\ movedBefore' = moved
  /\ moved' = FALSE
  /\ wdPc' = "test"
  /\ UNCHANGED <<hostVars, mem, fwVars, pc, callVars, cmdOffset, history, wrapMask,
                 LastROff, LastWOff, LastByteCount, reported, tested>>

BytesSince == (ByteCount - LastByteCount) % ByteCountMod

(* Nothing moved between two samples that both saw unread commands.  The   *)
(* mutant takes any submission for progress.                               *)
NotProgressed_Submission ==
  /\ sampledR # sampledW
  /\ LastROff # LastWOff
  /\ sampledR = LastROff
  /\ BytesSince = 0
NotProgressed ==
  /\ sampledR # sampledW
  /\ LastROff # LastWOff
  /\ sampledR = LastROff
  /\ BytesSince < Size

OffsetsValid ==
  /\ sampledR <= wrapMask
  /\ sampledDp <= wrapMask
  /\ sampledW <= wrapMask

(* An invalid offset ends the test before anything is remembered.  Whether *)
(* the GPU is idle and the recovery hold-off over is decided elsewhere.    *)
TestStall ==
  /\ wdPc = "test"
  /\ wdPc' = "idle"
  /\ wrapMask' = 0
  /\ sampledR' = 0
  /\ sampledDp' = 0
  /\ sampledW' = 0
  /\ \E gpuIdle \in BOOLEAN : reported' = (OffsetsValid /\ NotProgressed /\ gpuIdle)
  /\ IF OffsetsValid
       THEN /\ LastROff' = sampledR
            /\ LastWOff' = sampledW
            /\ LastByteCount' = ByteCount
            /\ tested' = TRUE
       ELSE UNCHANGED <<LastROff, LastWOff, LastByteCount, tested>>
  /\ UNCHANGED <<vars, moved, movedBefore>>

Submission == HostStep /\ UNCHANGED wdVars

Firmware ==
  /\ FwStep
  /\ moved' = (moved \/ ReadOffset' # ReadOffset)
  /\ UNCHANGED <<wdPc, wrapMask, sampledR, sampledDp, sampledW, LastROff, LastWOff,
                 LastByteCount, reported, movedBefore, tested>>

StallNext ==
  \/ Submission
  \/ Firmware
  \/ SampleMask
  \/ SampleOffsets
  \/ TestStall

StallSpec == StallInit /\ [][StallNext]_allVars

-----------------------------------------------------------------------------
(* The sampled offsets lie in the sampled ring: "CCCB has invalid offset"  *)
(* is never reported because a grow fell between two readings.             *)
SampledOffsetsValid == wdPc = "test" => OffsetsValid

(* A CCB with unread commands at two tests between which, and up to the    *)
(* verdict, the firmware read nothing is found stalled when the GPU is     *)
(* idle, even if the host submitted, wrapped or grew the ring meanwhile:   *)
(* the byte count never takes a stuck CCB for a running one.               *)
StuckIsFound ==
  wdPc = "test" /\ tested /\ ~movedBefore /\ ~moved
    /\ sampledR # sampledW /\ LastROff # LastWOff
  => NotProgressed
=============================================================================
