------------------------------ MODULE KernelCCB ------------------------------
(***************************************************************************)
(* The kernel CCB of one device (server/devices/rogue/rgxfwutils.c): a     *)
(* ring of fixed-size commands from the driver to the firmware, with       *)
(* - a list of deferred commands that did not fit, flushed in order before *)
(*   the next command is sent and by the MISR after a firmware interrupt;  *)
(* - a return slot per ring entry, in which the firmware answers and on    *)
(*   which a caller waits after it has dropped the power lock;             *)
(* - the active power management of rgxpower.c, which powers the device    *)
(*   off through the same ring when the firmware says it is idle.          *)
(* Whoever sends holds the power lock; the firmware reads the ring, and    *)
(* the MISR looks at the list, at any time.                                *)
(***************************************************************************)
EXTENDS Integers, Sequences

CONSTANTS
  Clients,       \* threads that send commands
  Pingers,       \* those of them that keep sending: the health-check watchdog
  None,          \* no thread: the power lock is free
  NumSlots,      \* entries of the ring: a power of two
  MaxDeferred,   \* bound on the deferred list
  NumIds,        \* identities are given out modulo NumIds
  ApmChoices,    \* whether pvAPMISRData may be installed
  PollTimesOut   \* the wait for the power-off answer may give up

Misr == "misr"
Threads == Clients \cup {Misr}

ASSUME KernelAssumption ==
  /\ Pingers \subseteq Clients
  /\ None \notin Threads /\ Misr \notin Clients
  /\ NumSlots \in Nat /\ NumSlots > 1
  /\ MaxDeferred \in Nat
  /\ NumIds \in Nat \ {0}
  /\ ApmChoices \subseteq BOOLEAN /\ PollTimesOut \in BOOLEAN

VARIABLES
  \* the ring, its control structure and the return slots, shared with the firmware
  WriteOffset, ReadOffset, kccb, rtnSlots,
  \* PVRSRV_RGXDEV_INFO and the device node
  deferred, powerLock, devicePower, misrScheduled,
  \* the firmware: ePowState and psPowSyncPrim
  ePowState, powSync,
  \* whoever holds the power lock: where it is, its local list, its command
  stage, local, req,
  \* the clients: where each is, what it asked for, its slot
  pc, cmdId, slot,
  misrPc,
  \* whether the driver installed pvAPMISRData
  pvAPMISRData,
  \* history: the next identity, the command executed last; what the
  \* firmware really answered to the command a client waits for, and whether
  \* a later command went to the same entry before the client has its answer
  nextId, out, answer, reused

ring    == <<WriteOffset, ReadOffset, kccb, rtnSlots>>
fw      == <<ePowState, powSync>>
sender  == <<stage, local, req>>
clients == <<pc, cmdId, slot>>
history == <<nextId, out, answer, reused>>
vars == <<ring, deferred, powerLock, devicePower, misrScheduled, fw, sender,
          clients, misrPc, history, pvAPMISRData>>

Ids == 0 .. NumIds - 1
Slots == 0 .. NumSlots - 1
Kinds == {"kick", "cleanup", "powoff"}
Command == [kind : Kinds \cup {"none"}, id : Ids, from : Threads \cup {None}]
NoCommand == [kind |-> "none", id |-> 0, from |-> None]

Answers == {"noResponse", "executed", "busy"}

(* RGXAcquireKernelCCBSlot: the ring keeps one entry free.  The mutant     *)
(* forgets ui32WrapMask.                                                   *)
NextOffset_Unmasked(o) == o + 1
NextOffset(o) == (o + 1) % NumSlots
Full == NextOffset(WriteOffset) = ReadOffset

(* A caller interested in the answer passes pui32CmdKCCBSlot. *)
WantsSlot(c) == c.kind \in {"cleanup", "powoff"}

(* "bPoll": such a caller waits for space, as its command is not deferred. *)
Polls == WantsSlot(req)

Init ==
  /\ WriteOffset = 0 /\ ReadOffset = 0
  /\ kccb = [s \in Slots |-> NoCommand]
  /\ rtnSlots = [s \in Slots |-> "noResponse"]
  /\ deferred = <<>>
  /\ powerLock = None
  /\ devicePower = "on"
  /\ misrScheduled = FALSE
  /\ ePowState = "on"
  /\ powSync = 0
  /\ stage = "none" /\ local = <<>> /\ req = NoCommand
  /\ pc = [t \in Clients |-> "idle"]
  /\ cmdId = [t \in Clients |-> 0]
  /\ slot = [t \in Clients |-> 0]
  /\ misrPc = "idle"
  /\ pvAPMISRData \in ApmChoices
  /\ nextId = 0 /\ out = 0
  /\ answer = [t \in Clients |-> "noResponse"]
  /\ reused = [t \in Clients |-> FALSE]

-----------------------------------------------------------------------------
(* Sending, under the power lock. *)

(* _RGXScheduleCommandAndGetKCCBSlot by client t: it takes the power lock  *)
(* and powers the device up.                                               *)
Schedule(t, kind) ==
  /\ pc[t] = "idle"
  /\ powerLock = None
  /\ powerLock' = t
  /\ pc' = [pc EXCEPT ![t] = "sending"]
  /\ devicePower' = "on"
  /\ ePowState' = IF devicePower = "off" THEN "on" ELSE ePowState
  /\ stage' = "begin"
  /\ req' = [kind |-> kind, id |-> 0, from |-> t]
  /\ UNCHANGED <<ring, deferred, misrScheduled, powSync, local, cmdId, slot, misrPc,
                 history, pvAPMISRData>>

(* RGXSendCommandsFromDeferredList moves the list to a local one. *)
MoveList ==
  /\ stage = "begin"
  /\ stage' = IF deferred = <<>> THEN "send" ELSE "flush"
  /\ local' = deferred
  /\ deferred' = <<>>
  /\ UNCHANGED <<ring, powerLock, devicePower, misrScheduled, fw, req, clients, misrPc,
                 history, pvAPMISRData>>

(* RGXSendCommandRaw: the command goes to the entry at the write offset;   *)
(* the slot is reset only for a caller that wants it, before the firmware  *)
(* can see the command; the mutant leaves the previous answer there.       *)
Reset_Never(c) == rtnSlots
Reset(c) == IF WantsSlot(c) THEN [rtnSlots EXCEPT ![WriteOffset] = "noResponse"]
                            ELSE rtnSlots
SendRaw(c) ==
  /\ ~Full
  /\ kccb' = [kccb EXCEPT ![WriteOffset] = c]
  /\ rtnSlots' = Reset(c)
  /\ WriteOffset' = NextOffset(WriteOffset)
  /\ reused' = [t \in Clients |->
       reused[t] \/ (pc[t] \in {"wait", "answered"} /\ slot[t] = WriteOffset)]
  /\ UNCHANGED ReadOffset

SendDeferred ==
  /\ stage = "flush" /\ local # <<>>
  /\ SendRaw(Head(local))
  /\ local' = Tail(local)
  /\ UNCHANGED <<deferred, powerLock, devicePower, misrScheduled, fw, stage, req,
                 clients, misrPc, nextId, out, answer, pvAPMISRData>>

(* All deferred commands are sent; one who polls also waits for an entry.  *)
Flushed ==
  /\ stage = "flush" /\ local = <<>>
  /\ Polls => ~Full
  /\ stage' = "send"
  /\ UNCHANGED <<ring, deferred, powerLock, devicePower, misrScheduled, fw, local, req,
                 clients, misrPc, history, pvAPMISRData>>

(* dllist_insert_list_at_head: what is left goes before what came later.   *)
Remaining == local \o deferred

(* The ring is full, at once or until the poll times out: what was not     *)
(* sent goes back to the head of the list.  The mutant then sends the      *)
(* command it has in hand all the same.                                    *)
AfterPutBack_Send == "send"
AfterPutBack == "full"
PutBack ==
  /\ stage = "flush" /\ Full
  /\ local # <<>> \/ Polls
  /\ deferred' = Remaining
  /\ local' = <<>>
  /\ stage' = AfterPutBack
  /\ UNCHANGED <<ring, powerLock, devicePower, misrScheduled, fw, req, clients, misrPc,
                 history, pvAPMISRData>>

Unlock ==
  /\ powerLock' = None
  /\ stage' = "none"
  /\ req' = NoCommand

(* The command as it enters the ring or the list: it is accepted now. *)
Accepted == [req EXCEPT !.id = nextId]
CountAccepted == nextId' = (nextId + 1) % NumIds

(* The mutant sends its command before what is still deferred. *)
MaySend_Always == stage \in {"send", "full"} /\ req # NoCommand
MaySend == stage = "send" /\ req # NoCommand

(* A client's command is sent: one that wants the answer remembers the     *)
(* entry and waits for it without the power lock.                          *)
SendOwn(t) ==
  /\ MaySend /\ req.from = t
  /\ SendRaw(Accepted)
  /\ CountAccepted
  /\ pc' = [pc EXCEPT ![t] = IF WantsSlot(req) THEN "wait" ELSE "idle"]
  /\ slot' = [slot EXCEPT ![t] = IF WantsSlot(req) THEN WriteOffset ELSE 0]
  /\ cmdId' = [cmdId EXCEPT ![t] = IF WantsSlot(req) THEN nextId ELSE 0]
  /\ answer' = [answer EXCEPT ![t] = "noResponse"]
  /\ Unlock
  /\ UNCHANGED <<deferred, devicePower, misrScheduled, fw, local, misrPc, out,
                 pvAPMISRData>>

(* KERNEL_CCB_FULL: by the time it is acted upon the firmware may have     *)
(* emptied the ring.                                                       *)
FindFull ==
  /\ stage = "send" /\ req # NoCommand
  /\ Full
  /\ stage' = "full"
  /\ UNCHANGED <<ring, deferred, powerLock, devicePower, misrScheduled, fw, local, req,
                 clients, misrPc, history, pvAPMISRData>>

Refused == stage = "full"

(* _AllocDeferredCommand: a command nobody waits for goes to the end of    *)
(* the list.                                                               *)
DeferOwn(t) ==
  /\ Refused /\ req.from = t
  /\ ~WantsSlot(req)
  /\ Len(deferred) < MaxDeferred
  /\ deferred' = Append(deferred, Accepted)
  /\ CountAccepted
  /\ pc' = [pc EXCEPT ![t] = "idle"]
  /\ Unlock
  /\ UNCHANGED <<ring, devicePower, misrScheduled, fw, local, cmdId, slot, misrPc, out,
                 answer, reused, pvAPMISRData>>

(* Other callers get the error, and so does one whose command could not be *)
(* allocated: they may call again.                                         *)
FailOwn(t) ==
  /\ Refused /\ req.from = t
  /\ pc' = [pc EXCEPT ![t] = "idle"]
  /\ Unlock
  /\ UNCHANGED <<ring, deferred, devicePower, misrScheduled, fw, local, cmdId, slot,
                 misrPc, history, pvAPMISRData>>

-----------------------------------------------------------------------------
(* RGXScheduleCleanupCommand waits for the answer without the power lock.  *)

WaitForKCCBSlotUpdate(t) ==
  /\ pc[t] = "wait"
  /\ rtnSlots[slot[t]] # "noResponse"
  /\ pc' = [pc EXCEPT ![t] = "answered"]
  /\ UNCHANGED <<ring, deferred, powerLock, devicePower, misrScheduled, fw, sender,
                 cmdId, slot, misrPc, history, pvAPMISRData>>

Forget(t) ==
  /\ slot' = [slot EXCEPT ![t] = 0]
  /\ cmdId' = [cmdId EXCEPT ![t] = 0]
  /\ answer' = [answer EXCEPT ![t] = "noResponse"]
  /\ reused' = [reused EXCEPT ![t] = FALSE]

(* The wait times out: the caller gets RETRY. *)
WaitTimesOut(t) ==
  /\ pc[t] = "wait"
  /\ pc' = [pc EXCEPT ![t] = "idle"]
  /\ Forget(t)
  /\ UNCHANGED <<ring, deferred, powerLock, devicePower, misrScheduled, fw, sender,
                 misrPc, nextId, out, pvAPMISRData>>

(* The slot is read again for CLEANUP_BUSY, which makes the caller retry;  *)
(* otherwise it goes on to free what it cleaned up.                        *)
ReadAnswer(t) ==
  /\ pc[t] = "answered"
  /\ pc' = [pc EXCEPT ![t] = IF rtnSlots[slot[t]] = "busy" THEN "idle" ELSE "cleaned"]
  /\ IF rtnSlots[slot[t]] = "busy" THEN Forget(t) ELSE UNCHANGED <<cmdId, slot, answer, reused>>
  /\ UNCHANGED <<ring, deferred, powerLock, devicePower, misrScheduled, fw, sender,
                 misrPc, nextId, out, pvAPMISRData>>

Free(t) ==
  /\ pc[t] = "cleaned"
  /\ pc' = [pc EXCEPT ![t] = "idle"]
  /\ Forget(t)
  /\ UNCHANGED <<ring, deferred, powerLock, devicePower, misrScheduled, fw, sender,
                 misrPc, nextId, out, pvAPMISRData>>

-----------------------------------------------------------------------------
(* The MISR: RGX_MISRHandler_CheckFWActivePowerState with active power     *)
(* management, the end of RGX_MISRHandler_Main without it.                 *)

RunMisr ==
  /\ misrPc = "idle" /\ misrScheduled
  /\ misrScheduled' = FALSE
  /\ misrPc' = IF pvAPMISRData /\ ePowState = "off" THEN "idle" ELSE "scan"
  /\ UNCHANGED <<ring, deferred, powerLock, devicePower, fw, sender, clients, history,
                 pvAPMISRData>>

AfterList == IF pvAPMISRData THEN "apm" ELSE "idle"

(* RGX_MISR_ProcessKCCBDeferredList looks at the list before it takes the  *)
(* power lock.                                                             *)
Scan ==
  /\ misrPc = "scan"
  /\ misrPc' = IF deferred = <<>> THEN AfterList ELSE "lock"
  /\ UNCHANGED <<ring, deferred, powerLock, devicePower, misrScheduled, fw, sender,
                 clients, history, pvAPMISRData>>

LockToFlush ==
  /\ misrPc = "lock"
  /\ powerLock = None
  /\ powerLock' = Misr
  /\ stage' = "begin"
  /\ misrPc' = "flush"
  /\ UNCHANGED <<ring, deferred, devicePower, misrScheduled, fw, local, req, clients,
                 history, pvAPMISRData>>

FlushEnds ==
  /\ misrPc = "flush"
  /\ stage \in {"send", "full"}
  /\ Unlock
  /\ misrPc' = AfterList
  /\ UNCHANGED <<ring, deferred, devicePower, misrScheduled, fw, local, clients,
                 history, pvAPMISRData>>

(* RGXActivePowerRequest only tries to take the power lock; the handler    *)
(* schedules itself again when it is taken; the mutant does not.           *)
Reschedule_Never == misrScheduled
Reschedule == TRUE
TryPowerLock ==
  /\ misrPc = "apm"
  /\ \/ /\ ePowState # "idle"
        /\ misrPc' = "idle"
        /\ UNCHANGED <<powerLock, misrScheduled>>
     \/ /\ ePowState = "idle" /\ powerLock # None
        /\ misrPc' = "idle"
        /\ misrScheduled' = Reschedule
        /\ UNCHANGED powerLock
     \/ /\ ePowState = "idle" /\ powerLock = None
        /\ powerLock' = Misr
        /\ misrPc' = "recheck"
        /\ UNCHANGED misrScheduled
  /\ UNCHANGED <<ring, deferred, devicePower, fw, sender, clients, history,
                 pvAPMISRData>>

(* "Check again for IDLE once we have the power lock" *)
StillIdle == ePowState = "idle"
RequestPowerOff ==
  /\ misrPc = "recheck"
  /\ \/ /\ StillIdle
        /\ powSync' = 0
        /\ stage' = "begin"
        /\ req' = [kind |-> "powoff", id |-> 0, from |-> Misr]
        /\ misrPc' = "powoff"
        /\ UNCHANGED powerLock
     \/ /\ ~StillIdle
        /\ Unlock
        /\ misrPc' = "idle"
        /\ UNCHANGED powSync
  /\ UNCHANGED <<ring, deferred, devicePower, misrScheduled, ePowState, local, clients,
                 history, pvAPMISRData>>

(* RGXPrePowerState sends the request like any caller that wants an answer *)
(* and keeps the power lock until psPowSyncPrim is set or the poll ends.   *)
SendPowerOff ==
  /\ misrPc = "powoff"
  /\ MaySend
  /\ SendRaw(Accepted)
  /\ CountAccepted
  /\ stage' = "none" /\ req' = NoCommand
  /\ misrPc' = "ack"
  /\ UNCHANGED <<deferred, powerLock, devicePower, misrScheduled, fw, local, clients,
                 out, answer, pvAPMISRData>>

PowerOffNotSent ==
  /\ misrPc = "powoff"
  /\ Refused
  /\ Unlock
  /\ misrPc' = "idle"
  /\ UNCHANGED <<ring, deferred, devicePower, misrScheduled, fw, local, clients,
                 history, pvAPMISRData>>

PowerOffAnswered ==
  /\ misrPc = "ack"
  /\ powSync = 1
  /\ devicePower' = IF ePowState = "off" THEN "off" ELSE devicePower
  /\ Unlock
  /\ misrPc' = "idle"
  /\ UNCHANGED <<ring, deferred, misrScheduled, fw, local, clients, history,
                 pvAPMISRData>>

PowerOffTimesOut ==
  /\ PollTimesOut
  /\ misrPc = "ack"
  /\ powSync = 0
  /\ Unlock
  /\ misrPc' = "idle"
  /\ UNCHANGED <<ring, deferred, devicePower, misrScheduled, fw, local, clients,
                 history, pvAPMISRData>>

-----------------------------------------------------------------------------
(* The firmware, as the driver relies on it.  It answers every command in  *)
(* the return slot of its entry; it grants a power-off request only when   *)
(* no command follows it, and may deny it even then.                       *)

FwExecute ==
  LET c == kccb[ReadOffset]
      last == NextOffset(ReadOffset) = WriteOffset
  IN
  /\ ePowState # "off"
  /\ ReadOffset # WriteOffset
  /\ kccb' = [kccb EXCEPT ![ReadOffset] = NoCommand]
  /\ ReadOffset' = NextOffset(ReadOffset)
  /\ \E a \in IF c.kind = "cleanup" THEN {"executed", "busy"} ELSE {"executed"} :
       /\ rtnSlots' = [rtnSlots EXCEPT ![ReadOffset] = a]
       /\ answer' = [t \in Clients |->
            IF /\ pc[t] \in {"wait", "answered"} /\ slot[t] = ReadOffset
               /\ c.kind = "cleanup" /\ c.from = t /\ c.id = cmdId[t]
              THEN a ELSE answer[t]]
  /\ ePowState' \in IF c.kind = "powoff" /\ last THEN {"on", "off"} ELSE {"on"}
  /\ powSync' = IF c.kind = "powoff" THEN 1 ELSE powSync
  /\ out' = c.id
  /\ UNCHANGED <<WriteOffset, deferred, powerLock, devicePower, misrScheduled, sender,
                 clients, misrPc, nextId, reused, pvAPMISRData>>

(* Out of commands, the firmware turns idle and interrupts the host. *)
FwIdle ==
  /\ ePowState = "on"
  /\ ReadOffset = WriteOffset
  /\ ePowState' = "idle"
  /\ misrScheduled' = TRUE
  /\ UNCHANGED <<ring, deferred, powerLock, devicePower, powSync, sender, clients,
                 misrPc, history, pvAPMISRData>>

(* It may interrupt the host for other reasons. *)
FwInterrupt ==
  /\ ePowState # "off"
  /\ misrScheduled' = TRUE
  /\ UNCHANGED <<ring, deferred, powerLock, devicePower, fw, sender, clients, misrPc,
                 history, pvAPMISRData>>

ClientStep(t) ==
  \/ \E kind \in {"kick", "cleanup"} : Schedule(t, kind)
  \/ SendOwn(t) \/ DeferOwn(t) \/ FailOwn(t)
  \/ WaitForKCCBSlotUpdate(t) \/ WaitTimesOut(t) \/ ReadAnswer(t) \/ Free(t)

SenderStep == MoveList \/ SendDeferred \/ Flushed \/ PutBack \/ FindFull

MisrStep ==
  \/ RunMisr \/ Scan \/ LockToFlush \/ FlushEnds \/ TryPowerLock \/ RequestPowerOff
  \/ SendPowerOff \/ PowerOffNotSent \/ PowerOffAnswered \/ PowerOffTimesOut

FwStep == FwExecute \/ FwIdle \/ FwInterrupt

Next == (\E t \in Clients : ClientStep(t)) \/ SenderStep \/ MisrStep \/ FwStep

Spec == Init /\ [][Next]_vars

(* Threads keep running, the firmware keeps reading.  Only the watchdog    *)
(* has to send, and counts only without power management; no command has   *)
(* to fail or be deferred while it can be sent.                            *)
Fairness ==
  /\ WF_vars(SenderStep)
  /\ \A t \in Clients : WF_vars(SendOwn(t) \/ DeferOwn(t) \/ FailOwn(t))
  /\ \A t \in Pingers : SF_vars(~pvAPMISRData /\ Schedule(t, "kick"))
  /\ WF_vars(RunMisr \/ Scan \/ FlushEnds \/ TryPowerLock \/ RequestPowerOff
             \/ SendPowerOff \/ PowerOffNotSent \/ PowerOffAnswered)
  /\ SF_vars(LockToFlush)
  /\ WF_vars(FwExecute) /\ WF_vars(FwIdle)

FairSpec == Spec /\ Fairness

-----------------------------------------------------------------------------
(* Every variable stays in its range. *)
TypeOK ==
  /\ WriteOffset \in Slots /\ ReadOffset \in Slots
  /\ kccb \in [Slots -> Command]
  /\ rtnSlots \in [Slots -> Answers]
  /\ deferred \in Seq(Command) /\ local \in Seq(Command)
  /\ req \in Command
  /\ powerLock \in Threads \cup {None}
  /\ devicePower \in {"on", "off"}
  /\ misrScheduled \in BOOLEAN
  /\ ePowState \in {"on", "idle", "off"}
  /\ powSync \in {0, 1}
  /\ stage \in {"none", "begin", "flush", "send", "full"}
  /\ pc \in [Clients -> {"idle", "sending", "wait", "answered", "cleaned"}]
  /\ cmdId \in [Clients -> Ids] /\ slot \in [Clients -> Slots]
  /\ misrPc \in {"idle", "scan", "lock", "flush", "apm", "recheck", "powoff", "ack"}
  /\ pvAPMISRData \in ApmChoices
  /\ nextId \in Ids /\ out \in Ids
  /\ answer \in [Clients -> Answers]
  /\ reused \in [Clients -> BOOLEAN]

(* What is accepted and not executed: the ring, then the list its holder   *)
(* works off, then the deferred list.                                      *)
InRing == (WriteOffset - ReadOffset) % NumSlots
Outstanding ==
  [i \in 1 .. InRing |-> kccb[(ReadOffset + i - 1) % NumSlots].id]
    \o [i \in 1 .. Len(local) |-> local[i].id]
    \o [i \in 1 .. Len(deferred) |-> deferred[i].id]

Fifo == INSTANCE CommandFifo WITH Commands <- Ids, queue <- Outstanding

(* An accepted command is executed once and in the order of acceptance     *)
(* (CommandFifo), sent at once, deferred, put back, or flushed by the MISR. *)
AcceptedInOrder == Fifo!Spec

(* The device is powered off only when nothing accepted is left behind, on *)
(* the deferred list or in the ring.  It takes a wait that does not give   *)
(* up: a request answered after its poll has ended (PollTimesOut) answers  *)
(* for the next one too, which stays in the ring.                          *)
PowerOffDrained == devicePower = "off" => Outstanding = <<>>

(* A caller goes on when the firmware has answered its command, and frees  *)
(* what it cleaned up only if that answer said so, although it reads the   *)
(* slot twice without the power lock.  What the code does not prevent is   *)
(* excepted: the entry, and the slot with it, may go to a later command    *)
(* before the caller has read it.                                          *)
FreedAsAnswered == \A t \in Clients :
  /\ pc[t] \in {"answered", "cleaned"} => answer[t] # "noResponse"
  /\ pc[t] = "cleaned" /\ ~reused[t] => answer[t] = "executed"

(* Without the exception it does not hold: "... doesn't get to see stale/  *)
(* false value in allotted slot" (rgxfwutils.c:3948) is true of values     *)
(* from before the command only.                                           *)
FreedOnlyAsAnswered == \A t \in Clients : pc[t] = "cleaned" => answer[t] = "executed"

(* A deferred command is not left on the list until someone happens to     *)
(* send another one, nor passed over for ever by those who do.             *)
Waiting == local \o deferred
DeferredSent == \A i \in Ids :
  Waiting # <<>> /\ Head(Waiting).id = i ~> Waiting = <<>> \/ Head(Waiting).id # i
=============================================================================
