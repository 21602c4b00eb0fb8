---------------------------- MODULE AudioLoopProofs ----------------------------
(***************************************************************************)
(* Proofs about AudioLoop: types, the wakeup that is never lost, the tone  *)
(* that is never stuck and the duty cycle that always fits, for every disk,*)
(* every set of volumes and every number of faults.                        *)
(***************************************************************************)
EXTENDS AudioLoop, TLAPS

-----------------------------------------------------------------------------
(* The inductive invariant.                                                *)

\* The parts of TypeOK: the provers want them apart.
KernelTypes ==
    /\ kpc \in {"idle", "notify", "account"}
    /\ anyIo \in BOOLEAN /\ endTrack \in Tracks /\ notified \in BOOLEAN
    /\ blocks \in Nat /\ crossings \in Nat

SettingTypes ==
    /\ mute \in BOOLEAN /\ enabled \in BOOLEAN /\ volume \in 0 .. 100
    /\ apc \in {"idle", "silence"}
    /\ faults \in 0 .. MaxFaults

LoopTypes ==
    /\ poller \in BOOLEAN /\ primed \in BOOLEAN
    /\ lpc \in Waiting \union
         {"stopped", "killed", "cancelled", "counter", "crossings", "tick",
          "render", "pulse", "off", "disable", "period", "duty", "enable",
          "silence", "failed", "drain"}
    /\ evt \in [blocks : Nat, crossings : Nat]
    /\ clicks \in Nat /\ kind \in Kinds

PwmTypes ==
    /\ enable \in BOOLEAN /\ period \in Nat /\ duty \in Nat
    /\ tone \in [period : Nat, duty : Nat]

\* What is read of the counters is not more than they hold.
EventInv ==
    /\ evt.blocks <= blocks /\ evt.crossings <= crossings
    /\ lpc \notin {"crossings", "tick"} => evt = NoEvent
    /\ lpc = "crossings" => evt.crossings = 0

\* From the read of the counter to the poll, what it missed is announced.
\* Without a poller nobody polls.
Announced == notified \/ kpc = "notify" \/ ~poller

WakeupInv ==
    /\ lpc = "poll" => poller
    /\ faults = 0 =>
         /\ lpc # "failed"
         /\ lpc = "tick" /\ crossings > evt.crossings => Announced
         /\ lpc \in {"render", "pulse", "off", "disable", "period", "duty",
                     "enable", "silence", "poll"} /\ crossings > 0 => Announced

\* Where a tone may sound; after a fault also until it is made up for.
ToneInv ==
    faults <= 1 /\ enable =>
      \/ lpc = "silence"
      \/ /\ faults = 1
         /\ \/ lpc \in {"failed", "killed"}
            \/ lpc \in {"counter", "crossings", "tick"} /\ ~primed
            \/ lpc = "render" /\ kind = "silence"

\* The shortest period and the longest duty cycle of the tones, in the tenths
\* of a microsecond of the module: 1900 Hz, and a motor spin of 750 Hz.
ShortestPeriod == 5263
LongestDuty == 4333

DutyInv ==
    /\ duty <= LongestDuty /\ tone.duty <= LongestDuty
    /\ lpc \in {"disable", "period", "duty", "enable"} =>
         tone.period >= ShortestPeriod
    /\ lpc \in {"duty", "enable"} => period >= ShortestPeriod

AudioInv == TypeOK /\ EventInv /\ WakeupInv /\ ToneInv /\ DutyInv

-----------------------------------------------------------------------------
(* What the detector, the renderer and play_tone compute.                  *)

\* The commands of the detector.
LEMMA CommandTypes ==
  ASSUME TypeOK, NEW c \in Commands(evt.crossings, evt.blocks)
  PROVE  c[1] \in Kinds /\ c[2] \in Nat
<1>1. MaxBurst \in Nat /\ SpinClicks \in Nat /\ evt.crossings \in Nat
      /\ AtMost(evt.crossings, MaxBurst) \in Nat
  BY AudioLoopAssumption DEF TypeOK, AtMost
<1>2. \/ c = <<"silence", 0>>
      \/ c = <<"seek_burst", AtMost(evt.crossings, MaxBurst)>>
      \/ c = <<"motor_spin", SpinClicks>> \/ c = <<"activity_tick", 1>>
  BY DEF Commands
<1> QED
  BY <1>1, <1>2 DEF Kinds

\* A period a tone may have, with a duty cycle it may have.
Fits(p) == /\ p \in Nat /\ p >= ShortestPeriod
           /\ AtMost(p, Duty(p)) \in Nat
           /\ AtMost(p, Duty(p)) <= LongestDuty

\* The lesser of two numbers.
LEMMA AtMostIs ==
  ASSUME NEW n \in Nat, NEW m \in Nat
  PROVE  AtMost(n, m) \in Nat /\ AtMost(n, m) <= m
BY SMT DEF AtMost

\* A period that is not too short, with a duty cycle that is not too long.
LEMMA DutyFits ==
  ASSUME NEW p \in Nat, p >= ShortestPeriod,
         Duty(p) \in Nat, Duty(p) <= LongestDuty
  PROVE  Fits(p)
<1> DEFINE d == Duty(p)
<1>1. d \in Nat /\ d <= LongestDuty
  OBVIOUS
<1> HIDE DEF d
<1>2. AtMost(p, d) \in Nat /\ AtMost(p, d) <= d
  BY <1>1, AtMostIs
<1>3. AtMost(p, d) <= LongestDuty
  BY <1>1, <1>2, SMT DEF LongestDuty
<1> QED
  BY <1>2, <1>3 DEF Fits, d

\* A seek burst, at every volume.
LEMMA SeekFits ==
  ASSUME TypeOK, kind = "seek_burst", NEW p \in {7692, 5263}
  PROVE  Fits(p)
<1>1. volume \in 0 .. 100
  BY DEF TypeOK
<1>2. VolumePercent = 100
  BY SMT DEF VolumePercent
<1>3. Duty(p) \in Nat /\ Duty(p) <= LongestDuty
  BY <1>1, <1>2, SMT DEF Duty, LongestDuty
<1>4. p \in Nat /\ p >= ShortestPeriod
  BY SMT DEF ShortestPeriod
<1> QED
  BY <1>3, <1>4, DutyFits

\* An activity tick, at every volume.
LEMMA TickFits ==
  ASSUME TypeOK, kind = "activity_tick", NEW p \in {14285, 9090}
  PROVE  Fits(p)
<1>1. volume \in 0 .. 100
  BY DEF TypeOK
<1>2. VolumePercent = 35
  BY SMT DEF VolumePercent
<1>3. Duty(p) \in Nat /\ Duty(p) <= LongestDuty
  BY <1>1, <1>2, SMT DEF Duty, LongestDuty
<1>4. p \in Nat /\ p >= ShortestPeriod
  BY SMT DEF ShortestPeriod
<1> QED
  BY <1>3, <1>4, DutyFits

\* A motor spin, at every volume.
LEMMA SpinFits ==
  ASSUME TypeOK, kind \notin {"seek_burst", "activity_tick"},
         NEW p \in {13333, 8000}
  PROVE  Fits(p)
<1>1. volume \in 0 .. 100
  BY DEF TypeOK
<1>2. VolumePercent = 65
  BY SMT DEF VolumePercent
<1>3. Duty(p) \in Nat /\ Duty(p) <= LongestDuty
  BY <1>1, <1>2, SMT DEF Duty, LongestDuty
<1>4. p \in Nat /\ p >= ShortestPeriod
  BY SMT DEF ShortestPeriod
<1> QED
  BY <1>3, <1>4, DutyFits

\* Every tone the loop can play, at every volume.
LEMMA ToneTypes ==
  ASSUME TypeOK, NEW hz \in Band
  PROVE  Fits(10000000 \div hz)
<1>1. CASE kind = "seek_burst"
  <2>1. 10000000 \div hz \in {7692, 5263}
    BY <1>1, SMT DEF Band
  <2> QED
    BY <1>1, <2>1, SeekFits, SMT
<1>2. CASE kind = "activity_tick"
  <2>1. 10000000 \div hz \in {14285, 9090}
    BY <1>2, SMT DEF Band
  <2> QED
    BY <1>2, <2>1, TickFits, SMT
<1>3. CASE kind \notin {"seek_burst", "activity_tick"}
  <2>1. 10000000 \div hz \in {13333, 8000}
    BY <1>3, SMT DEF Band
  <2> QED
    BY <1>3, <2>1, SpinFits, SMT
<1> QED
  BY <1>1, <1>2, <1>3, SMT

\* After a fault that leaves one there was none.
LEMMA FaultIs ==
  ASSUME TypeOK, Fault
  PROVE  faults' <= 1 => faults <= 1 /\ faults # 1 /\ faults' = 1
<1>1. faults \in Nat
  BY AudioLoopAssumption DEF TypeOK
<1> QED
  BY <1>1 DEF Fault

-----------------------------------------------------------------------------
(* Types are kept.                                                         *)

\* The counters stay numbers: the detector subtracts no more than it has read.
LEMMA KernelTypesStep ==
  ASSUME TypeOK, EventInv, [Next]_vars
  PROVE  KernelTypes'
<1> USE AudioLoopAssumption DEF KernelTypes, TypeOK, EventInv, kernelVars,
  countVars, pwmVars, setVars, smVars, cmdVars
<1>1. CASE \E start, end \in Tracks : Record(start, end)
  BY <1>1 DEF Record, Stepped, Distance
<1>2. CASE Notify
  BY <1>2 DEF Notify
<1>3. CASE Account
  BY <1>3 DEF Account
<1>4. CASE (\E v \in Volumes : SetVolume(v)) \/ (\E b \in BOOLEAN :
          SetMute(b)) \/ (\E b \in BOOLEAN : SetEnabled(b)) \/ SettingSilence
  BY <1>4 DEF SetVolume, Running, SetMute, SetEnabled, SettingSilence, Fault
<1>5. CASE Start
  BY <1>5 DEF Start
<1>6. CASE ReadCounter \/ ReadCrossings \/ Render \/ PlayTone \/ WriteOff \/
          WritePeriod \/ WriteDuty \/ WriteOn \/ TickFails \/
          SilenceAfterFailure \/ Wake \/ Cancel
  BY <1>6
  DEF ReadCounter, At, ReadCrossings, Render, PlayTone, WriteOff, WritePeriod,
    WriteDuty, WriteOn, TickFails, Fault, SilenceAfterFailure, Settle, Wake,
    Cancel
<1>7. CASE DetectorTick
  BY <1>7 DEF DetectorTick, At
<1>8. CASE WriteSilence
  BY <1>8 DEF WriteSilence, Settle
<1>9. CASE Drain
  BY <1>9 DEF Drain, At
<1>10. CASE SilenceOnShutdown
  BY <1>10 DEF SilenceOnShutdown, At, Fault
<1>11. CASE Kill
  BY <1>11 DEF Kill, Running, Fault
<1>12. CASE UNCHANGED vars
  BY <1>12 DEF vars
<1> QED
  BY <1>1, <1>2, <1>3, <1>4, <1>5, <1>6, <1>7, <1>8, <1>9, <1>10, <1>11, <1>12
  DEF Next, LoopStep

\* The settings stay in range, and the faults within their bound.
LEMMA SettingTypesStep ==
  ASSUME TypeOK, EventInv, [Next]_vars
  PROVE  SettingTypes'
<1> USE AudioLoopAssumption DEF SettingTypes, TypeOK, kernelVars, countVars,
  pwmVars, setVars, smVars, cmdVars
<1>1. CASE (\E start, end \in Tracks : Record(start, end)) \/ Notify \/
          Account
  BY <1>1 DEF Record, Stepped, Distance, Notify, Account
<1>2. CASE (\E v \in Volumes : SetVolume(v)) \/ (\E b \in BOOLEAN :
          SetMute(b)) \/ (\E b \in BOOLEAN : SetEnabled(b))
  BY <1>2 DEF SetVolume, Running, SetMute, SetEnabled
<1>3. CASE SettingSilence
  BY <1>3 DEF SettingSilence, Fault
<1>4. CASE Start \/ ReadCounter \/ ReadCrossings \/ DetectorTick \/ Render \/
          WriteOff \/ WritePeriod \/ WriteDuty \/ WriteOn \/ WriteSilence \/
          Wake \/ Drain \/ Cancel
  BY <1>4
  DEF Start, ReadCounter, At, ReadCrossings, DetectorTick, Render, WriteOff,
    WritePeriod, WriteDuty, WriteOn, WriteSilence, Settle, Wake, Drain, Cancel
<1>5. CASE PlayTone
  BY <1>5, SMT DEF PlayTone
<1>6. CASE TickFails \/ SilenceAfterFailure \/ SilenceOnShutdown \/ Kill
  BY <1>6
  DEF TickFails, Fault, SilenceAfterFailure, Settle, SilenceOnShutdown, At,
    Kill, Running
<1>7. CASE UNCHANGED vars
  BY <1>7 DEF vars
<1> QED
  BY <1>1, <1>2, <1>3, <1>4, <1>5, <1>6, <1>7 DEF Next, LoopStep

\* The loop stays within its steps, with a command the renderer knows.
LEMMA LoopTypesStep ==
  ASSUME TypeOK, EventInv, [Next]_vars
  PROVE  LoopTypes'
<1> USE DEF LoopTypes, TypeOK, Waiting, NoEvent, Kinds, kernelVars, countVars,
  pwmVars, setVars, smVars, cmdVars
<1>1. CASE (\E start, end \in Tracks : Record(start, end)) \/ Notify \/
          Account
  BY <1>1 DEF Record, Stepped, Distance, Notify, Account
<1>2. CASE (\E v \in Volumes : SetVolume(v)) \/ (\E b \in BOOLEAN :
          SetMute(b)) \/ (\E b \in BOOLEAN : SetEnabled(b)) \/ SettingSilence
  BY <1>2 DEF SetVolume, Running, SetMute, SetEnabled, SettingSilence, Fault
<1>3. CASE Start
  BY <1>3 DEF Start
<1>4. CASE ReadCounter \/ ReadCrossings
  BY <1>4 DEF ReadCounter, At, ReadCrossings
<1>5. CASE DetectorTick
  <2>1. kind' \in Kinds /\ clicks' \in Nat
    BY <1>5, CommandTypes DEF DetectorTick
  <2> QED
    BY <1>5, <2>1 DEF DetectorTick, At, NoEvent
<1>6. CASE Render \/ PlayTone \/ WriteOff \/ WritePeriod \/ WriteDuty \/
          WriteOn \/ WriteSilence \/ TickFails \/ SilenceAfterFailure \/ Wake
          \/ Drain \/ Cancel
  BY <1>6
  DEF Render, PlayTone, WriteOff, At, WritePeriod, WriteDuty, WriteOn,
    WriteSilence, Settle, TickFails, Fault, SilenceAfterFailure, Wake, Drain,
    Cancel
<1>7. CASE SilenceOnShutdown
  BY <1>7 DEF SilenceOnShutdown, At, Fault
<1>8. CASE Kill
  BY <1>8 DEF Kill, Running, Fault
<1>9. CASE UNCHANGED vars
  BY <1>9 DEF vars
<1> QED
  BY <1>1, <1>2, <1>3, <1>4, <1>5, <1>6, <1>7, <1>8, <1>9 DEF Next, LoopStep

\* The channel is only given periods and duty cycles of a tone.
LEMMA PwmTypesStep ==
  ASSUME TypeOK, EventInv, [Next]_vars
  PROVE  PwmTypes'
<1> USE DEF PwmTypes, TypeOK, NoTone, kernelVars, countVars, pwmVars, setVars,
  smVars, cmdVars
<1>1. CASE (\E start, end \in Tracks : Record(start, end)) \/ Notify \/
          Account
  BY <1>1 DEF Record, Stepped, Distance, Notify, Account
<1>2. CASE (\E v \in Volumes : SetVolume(v)) \/ (\E b \in BOOLEAN :
          SetMute(b)) \/ (\E b \in BOOLEAN : SetEnabled(b)) \/ SettingSilence
  BY <1>2 DEF SetVolume, Running, SetMute, SetEnabled, SettingSilence, Fault
<1>3. CASE Start \/ ReadCounter \/ ReadCrossings \/ DetectorTick \/ Render \/
          Wake \/ Drain \/ Cancel
  BY <1>3
  DEF Start, ReadCounter, At, ReadCrossings, DetectorTick, Render, Wake,
    Drain, Cancel
<1>4. CASE PlayTone
  BY <1>4, ToneTypes, SMT DEF PlayTone, Fits
<1>5. CASE WriteOff
  BY <1>5 DEF WriteOff, At
<1>6. CASE WritePeriod \/ WriteDuty
  BY <1>6 DEF WritePeriod, At, WriteDuty
<1>7. CASE WriteOn
  BY <1>7 DEF WriteOn, At
<1>8. CASE WriteSilence \/ SilenceAfterFailure
  BY <1>8 DEF WriteSilence, Settle, SilenceAfterFailure, Fault
<1>9. CASE TickFails
  BY <1>9 DEF TickFails, Fault
<1>10. CASE SilenceOnShutdown
  BY <1>10 DEF SilenceOnShutdown, At, Fault
<1>11. CASE Kill
  BY <1>11 DEF Kill, Running, Fault
<1>12. CASE UNCHANGED vars
  BY <1>12 DEF vars
<1> QED
  BY <1>1, <1>2, <1>3, <1>4, <1>5, <1>6, <1>7, <1>8, <1>9, <1>10, <1>11, <1>12
  DEF Next, LoopStep

\* The poll descriptor has an event or not.
LEMMA NotifiedStep ==
  ASSUME TypeOK, [Next]_vars
  PROVE  notified' \in BOOLEAN
<1> USE DEF TypeOK, kernelVars, countVars, pwmVars, setVars, smVars, cmdVars
<1>1. CASE (\E start, end \in Tracks : Record(start, end)) \/ Notify \/
          Account
  BY <1>1 DEF Record, Stepped, Distance, Notify, Account
<1>2. CASE (\E v \in Volumes : SetVolume(v)) \/ (\E b \in BOOLEAN :
          SetMute(b)) \/ (\E b \in BOOLEAN : SetEnabled(b)) \/ SettingSilence
  BY <1>2 DEF SetVolume, Running, SetMute, SetEnabled, SettingSilence, Fault
<1>3. CASE Start
  BY <1>3 DEF Start
<1>4. CASE ReadCounter \/ ReadCrossings \/ DetectorTick \/ Render
  BY <1>4 DEF ReadCounter, At, ReadCrossings, DetectorTick, Render
<1>5. CASE PlayTone
  BY <1>5, SMT DEF PlayTone
<1>6. CASE WriteOff \/ WritePeriod \/ WriteDuty \/ WriteOn
  BY <1>6 DEF WriteOff, At, WritePeriod, WriteDuty, WriteOn
<1>7. CASE WriteSilence
  BY <1>7 DEF WriteSilence, Settle
<1>8. CASE TickFails
  BY <1>8 DEF TickFails, Fault
<1>9. CASE SilenceAfterFailure
  BY <1>9 DEF SilenceAfterFailure, Settle, Fault
<1>10. CASE Wake \/ Drain \/ Cancel
  BY <1>10 DEF Wake, At, Drain, Cancel
<1>11. CASE SilenceOnShutdown
  BY <1>11 DEF SilenceOnShutdown, At, Fault
<1>12. CASE Kill
  BY <1>12 DEF Kill, Running, Fault
<1>13. CASE UNCHANGED vars
  BY <1>13 DEF vars
<1> QED
  BY <1>1, <1>2, <1>3, <1>4, <1>5, <1>6, <1>7, <1>8, <1>9, <1>10, <1>11, <1>12,
    <1>13
  DEF Next, LoopStep

-----------------------------------------------------------------------------
(* The parts of the invariant are kept.                                    *)

\* Between the two reads and the tick the counters only grow.
LEMMA EventStep ==
  ASSUME TypeOK, EventInv, [Next]_vars
  PROVE  EventInv'
<1> USE AudioLoopAssumption DEF EventInv, TypeOK, NoEvent, Waiting,
  kernelVars, countVars, pwmVars, setVars, smVars, cmdVars
<1>1. CASE \E start, end \in Tracks : Record(start, end)
  BY <1>1 DEF Record, Stepped, Distance
<1>2. CASE Notify \/ Account
  BY <1>2 DEF Notify, Account
<1>3. CASE (\E v \in Volumes : SetVolume(v)) \/ (\E b \in BOOLEAN :
          SetMute(b)) \/ (\E b \in BOOLEAN : SetEnabled(b)) \/ SettingSilence
  BY <1>3 DEF SetVolume, Running, SetMute, SetEnabled, SettingSilence, Fault
<1>4. CASE Start
  BY <1>4 DEF Start
<1>5. CASE ReadCounter
  BY <1>5 DEF ReadCounter, At
<1>6. CASE ReadCrossings
  BY <1>6 DEF ReadCrossings, At
<1>7. CASE DetectorTick
  BY <1>7 DEF DetectorTick, At
<1>8. CASE Render \/ PlayTone \/ WriteOff \/ WritePeriod \/ WriteDuty \/
          WriteOn \/ WriteSilence \/ SilenceAfterFailure \/ Wake \/ Drain \/
          Cancel \/ SilenceOnShutdown
  BY <1>8
  DEF Render, PlayTone, WriteOff, At, WritePeriod, WriteDuty, WriteOn,
    WriteSilence, Settle, SilenceAfterFailure, Fault, Wake, Drain, Cancel,
    SilenceOnShutdown
<1>9. CASE TickFails \/ Kill
  BY <1>9 DEF TickFails, Fault, Kill, Running
<1>10. CASE UNCHANGED vars
  BY <1>10 DEF vars
<1> QED
  BY <1>1, <1>2, <1>3, <1>4, <1>5, <1>6, <1>7, <1>8, <1>9, <1>10
  DEF Next, LoopStep

\* Between the drain and the poll, who counts also notifies.
LEMMA WakeupStep ==
  ASSUME TypeOK, EventInv, WakeupInv, [Next]_vars
  PROVE  WakeupInv'
<1> USE AudioLoopAssumption DEF WakeupInv, EventInv, Announced, TypeOK,
  NoEvent, kernelVars, countVars, pwmVars, setVars, smVars, cmdVars
<1>1. CASE \E start, end \in Tracks : Record(start, end)
  BY <1>1 DEF Record, Stepped, Distance
<1>2. CASE Notify
  BY <1>2 DEF Notify
<1>3. CASE Account
  BY <1>3 DEF Account
<1>4. CASE (\E v \in Volumes : SetVolume(v)) \/ (\E b \in BOOLEAN :
          SetMute(b)) \/ (\E b \in BOOLEAN : SetEnabled(b)) \/ SettingSilence
  BY <1>4 DEF SetVolume, Running, SetMute, SetEnabled, SettingSilence, Fault
<1>5. CASE Start
  BY <1>5 DEF Start
<1>6. CASE ReadCounter
  BY <1>6 DEF ReadCounter, At
<1>7. CASE ReadCrossings
  BY <1>7 DEF ReadCrossings, At
<1>8. CASE DetectorTick
  BY <1>8 DEF DetectorTick, At
<1>9. CASE Render \/ PlayTone \/ WriteOff \/ WritePeriod \/ WriteDuty \/
          WriteOn \/ WriteSilence \/ TickFails \/ SilenceAfterFailure \/ Wake
          \/ Drain \/ Cancel \/ SilenceOnShutdown \/ Kill
  BY <1>9
  DEF Render, PlayTone, WriteOff, At, WritePeriod, WriteDuty, WriteOn,
    WriteSilence, Settle, TickFails, Fault, SilenceAfterFailure, Wake, Drain,
    Cancel, SilenceOnShutdown, Kill, Running
<1>10. CASE UNCHANGED vars
  BY <1>10 DEF vars
<1> QED
  BY <1>1, <1>2, <1>3, <1>4, <1>5, <1>6, <1>7, <1>8, <1>9, <1>10
  DEF Next, LoopStep

\* Only the write of enable starts a tone, and the silence follows it.
LEMMA ToneStep ==
  ASSUME TypeOK, ToneInv, [Next]_vars
  PROVE  ToneInv'
<1>0. enable \in BOOLEAN /\ faults \in Nat /\ MaxFaults \in Nat
  BY AudioLoopAssumption DEF TypeOK
<1> USE <1>0 DEF ToneInv, kernelVars, countVars,
  pwmVars, setVars, smVars, cmdVars
<1>1. CASE \E start, end \in Tracks : Record(start, end)
  BY <1>1 DEF Record, Stepped, Distance
<1>2. CASE Notify \/ Account
  BY <1>2 DEF Notify, Account
<1>3. CASE \E v \in Volumes : SetVolume(v)
  BY <1>3 DEF SetVolume, Running
<1>4. CASE \E b \in BOOLEAN : SetMute(b)
  BY <1>4 DEF SetMute, Running
<1>5. CASE \E b \in BOOLEAN : SetEnabled(b)
  BY <1>5 DEF SetEnabled, Running
<1>6. CASE SettingSilence
  BY <1>6, FaultIs DEF SettingSilence
<1>7. CASE Start
  BY <1>7 DEF Start
<1>8. CASE ReadCounter \/ ReadCrossings
  BY <1>8 DEF ReadCounter, At, ReadCrossings
<1>9. CASE DetectorTick
  BY <1>9 DEF DetectorTick, At, Commands
<1>10. CASE Render
  BY <1>10 DEF Render
<1>11. CASE PlayTone
  BY <1>11, SMT DEF PlayTone
<1>12. CASE WriteOff
  BY <1>12 DEF WriteOff, At
<1>13. CASE WritePeriod \/ WriteDuty
  BY <1>13 DEF WritePeriod, At, WriteDuty
<1>14. CASE WriteOn \/ WriteSilence
  BY <1>14 DEF WriteOn, At, WriteSilence, Settle
<1>15. CASE TickFails
  BY <1>15, FaultIs DEF TickFails
<1>16. CASE SilenceAfterFailure
  BY <1>16, FaultIs DEF SilenceAfterFailure, Settle
<1>17. CASE Wake
  BY <1>17 DEF Wake, At
<1>18. CASE Drain
  BY <1>18 DEF Drain, At
<1>19. CASE Cancel
  BY <1>19 DEF Cancel, Waiting
<1>20. CASE SilenceOnShutdown
  BY <1>20, FaultIs DEF SilenceOnShutdown, At
<1>21. CASE Kill
  BY <1>21, FaultIs DEF Kill, Running
<1>22. CASE UNCHANGED vars
  BY <1>22 DEF vars
<1> QED
  BY <1>1, <1>2, <1>3, <1>4, <1>5, <1>6, <1>7, <1>8, <1>9, <1>10, <1>11,
    <1>12, <1>13, <1>14, <1>15, <1>16, <1>17, <1>18, <1>19, <1>20, <1>21,
    <1>22
  DEF Next, LoopStep

\* The writes come one at a time, over the tone before.
LEMMA DutyStep ==
  ASSUME TypeOK, DutyInv, [Next]_vars
  PROVE  DutyInv'
<1> USE DEF DutyInv, TypeOK, NoTone, kernelVars, countVars, pwmVars, setVars,
  smVars, cmdVars
<1>1. CASE (\E start, end \in Tracks : Record(start, end)) \/ Notify \/
          Account
  BY <1>1 DEF Record, Stepped, Distance, Notify, Account
<1>2. CASE (\E v \in Volumes : SetVolume(v)) \/ (\E b \in BOOLEAN :
          SetMute(b)) \/ (\E b \in BOOLEAN : SetEnabled(b)) \/ SettingSilence
  BY <1>2 DEF SetVolume, Running, SetMute, SetEnabled, SettingSilence, Fault
<1>3. CASE Start \/ ReadCounter \/ ReadCrossings \/ DetectorTick \/ Render \/
          WriteOff \/ WriteSilence \/ SilenceAfterFailure \/ Wake \/ Drain \/
          Cancel \/ SilenceOnShutdown
  BY <1>3
  DEF Start, ReadCounter, At, ReadCrossings, DetectorTick, Render, WriteOff,
    WriteSilence, Settle, SilenceAfterFailure, Fault, Wake, Drain, Cancel,
    SilenceOnShutdown
<1>4. CASE PlayTone
  BY <1>4, ToneTypes, SMT DEF PlayTone, Fits
<1>5. CASE WritePeriod \/ WriteDuty
  BY <1>5 DEF WritePeriod, At, WriteDuty
<1>6. CASE WriteOn
  BY <1>6, SMT DEF WriteOn, At, LongestDuty
<1>7. CASE TickFails \/ Kill
  BY <1>7, SMT DEF TickFails, Fault, Kill, Running, LongestDuty
<1>8. CASE UNCHANGED vars
  BY <1>8 DEF vars
<1> QED
  BY <1>1, <1>2, <1>3, <1>4, <1>5, <1>6, <1>7, <1>8 DEF Next, LoopStep

-----------------------------------------------------------------------------
(* The theorems.                                                           *)

\* The service starts with no sound and nothing counted.
LEMMA AudioInit == Init => AudioInv
<1> SUFFICES ASSUME Init PROVE AudioInv
  OBVIOUS
<1>1. TypeOK
  <2>1. KernelTypes /\ notified \in BOOLEAN
    BY DEF Init, KernelTypes
  <2>2. SettingTypes
    <3>1. 0 \in 0 .. MaxFaults
      BY AudioLoopAssumption
    <3> QED
      BY <3>1, AudioLoopAssumption DEF Init, SettingTypes
  <2>3. LoopTypes
    BY DEF Init, LoopTypes, NoEvent, Kinds
  <2>4. PwmTypes
    BY DEF Init, PwmTypes, NoTone
  <2> QED
    BY <2>1, <2>2, <2>3, <2>4
    DEF TypeOK, KernelTypes, SettingTypes, LoopTypes, PwmTypes
<1>2. EventInv
  BY DEF Init, EventInv, NoEvent
<1>3. WakeupInv /\ ToneInv
  BY DEF Init, WakeupInv, ToneInv
<1>4. DutyInv
  BY SMT DEF Init, DutyInv, NoTone, LongestDuty
<1> QED
  BY <1>1, <1>2, <1>3, <1>4 DEF AudioInv

\* The invariant is inductive.
LEMMA AudioStep ==
  ASSUME AudioInv, [Next]_vars
  PROVE  AudioInv'
<1> USE DEF AudioInv
<1>1. TypeOK'
  <2>1. KernelTypes' /\ SettingTypes' /\ LoopTypes' /\ PwmTypes'
    BY KernelTypesStep, SettingTypesStep, LoopTypesStep, PwmTypesStep
  <2>2. notified' \in BOOLEAN
    BY NotifiedStep
  <2> QED
    BY <2>1, <2>2
    DEF TypeOK, KernelTypes, SettingTypes, LoopTypes, PwmTypes
<1> QED
  BY <1>1, EventStep, WakeupStep, ToneStep, DutyStep

\* At every moment.
LEMMA AudioHolds == Spec => []AudioInv
<1> QED
  BY AudioInit, AudioStep, PTL DEF Spec

\* Every variable keeps its type, whatever fails.
THEOREM TypeCorrect == Spec => []TypeOK
<1>1. AudioInv => TypeOK
  BY DEF AudioInv
<1> QED
  BY <1>1, AudioHolds, PTL

\* AudioLoop.run drains the descriptor before it reads the counters, and
\* floppy_io_event_record counts before it notifies: no seek is left to the
\* timeout of the poll.
THEOREM WakeupKept == Spec => []NoLostWakeup
<1>1. AudioInv => NoLostWakeup
  BY DEF AudioInv, WakeupInv, NoLostWakeup, Announced
<1> QED
  BY <1>1, AudioHolds, PTL

\* play_tone is undone by the silence after it, by the except clause of run()
\* or by the shutdown: one failed access leaves no tone behind, nor does one
\* kill, whenever the settings change.
THEOREM ToneNotStuck == Spec => []NoStuckTone
<1>1. AudioInv => NoStuckTone
  BY DEF AudioInv, ToneInv, NoStuckTone, Waiting
<1> QED
  BY <1>1, AudioHolds, PTL

\* PwmBuzzer writes the period of a tone over the duty cycle of the tone before
\* it: the longest duty cycle of renderer.py is below the shortest period.
THEOREM DutyFitsAlways == Spec => []DutyFitsPeriod
<1>1. AudioInv => DutyFitsPeriod
  <2> SUFFICES ASSUME AudioInv, lpc \in {"duty", "enable"}
               PROVE  duty <= period
    BY DEF DutyFitsPeriod
  <2>1. duty \in Nat /\ period \in Nat
    BY DEF AudioInv, TypeOK
  <2>2. duty <= LongestDuty /\ period >= ShortestPeriod
    BY DEF AudioInv, DutyInv
  <2> QED
    BY <2>1, <2>2, SMT DEF LongestDuty, ShortestPeriod
<1> QED
  BY <1>1, AudioHolds, PTL
=============================================================================
