------------------------------- MODULE AudioLoop -------------------------------
(***************************************************************************)
(* The buzzer: the kernel's I/O tracker, the sysfs_notify that wakes the   *)
(* audio loop, the loop with its detector and renderer, the PWM attributes *)
(* it writes, and the web threads that change mute, volume and enabled     *)
(* under it.                                                               *)
(*                                                                         *)
(* The tracker's counters only grow and the detector only looks at their   *)
(* differences, so the model keeps what the detector has not accounted for *)
(* yet, up to MaxUnheard.  now_us is not modelled: whether the drive was   *)
(* idle, and whether a transfer tick is due, may go either way.  What      *)
(* config.json keeps of the settings is the subject of ConfigStore.  Tones *)
(* take the extremes of their frequency band; times are in tenths of a     *)
(* microsecond to stay within TLC's integers.                              *)
(***************************************************************************)
EXTENDS Integers

CONSTANTS
    Tracks,         \* 0 .. the last track of the disk
    MaxUnheard,     \* bound: blocks and crossings the detector has not seen
    MaxBurst,       \* _max_burst, clicks of the longest seek burst
    SpinClicks,     \* the clicks of a motor spin
    Volumes,        \* the volumes a client may set
    MaxFaults       \* bound: sysfs accesses that fail, and kills

ASSUME AudioLoopAssumption ==
    /\ Tracks \subseteq Nat
    /\ MaxUnheard \in Nat /\ MaxFaults \in Nat
    /\ MaxBurst \in Nat \ {0} /\ SpinClicks \in Nat \ {0}
    /\ Volumes \subseteq 0 .. 100

VARIABLES
    kpc,                \* the kthread in record()
    anyIo, endTrack,    \* total_blocks # 0, last_end_track
    blocks, crossings,  \* counted, and not yet seen by the detector
    notified,           \* the poll fd has an event
    enable, period, duty,   \* the PWM channel
    mute, enabled, volume,  \* the buzzer's settings
    apc,                \* the web thread: idle, or to write the silence
    lpc,                \* the loop
    poller,             \* the notifier could be opened
    primed,             \* the detector has its baseline
    evt,                \* the IOEvent being read, as differences
    clicks, kind,       \* the SoundCommand being rendered
    tone,               \* the arguments of the play_tone in progress
    faults              \* accesses that have failed, and kills

kernelVars == <<kpc, anyIo, endTrack>>
countVars  == <<blocks, crossings>>
pwmVars    == <<enable, period, duty>>
setVars    == <<mute, enabled, volume, apc>>
smVars     == <<primed, evt>>
cmdVars    == <<clicks, kind, tone>>
vars == <<kernelVars, countVars, notified, pwmVars, setVars, lpc, poller,
          smVars, cmdVars, faults>>

Kinds == {"silence", "seek_burst", "activity_tick", "motor_spin"}
Waiting == {"poll", "sleep"}

TypeOK ==
    /\ kpc \in {"idle", "notify", "account"}
    /\ anyIo \in BOOLEAN /\ endTrack \in Tracks
    /\ blocks \in Nat /\ crossings \in Nat
    /\ notified \in BOOLEAN /\ poller \in BOOLEAN /\ primed \in BOOLEAN
    /\ enable \in BOOLEAN /\ period \in Nat /\ duty \in Nat
    /\ mute \in BOOLEAN /\ enabled \in BOOLEAN /\ volume \in 0 .. 100
    /\ apc \in {"idle", "silence"}
    /\ lpc \in Waiting \union
         {"stopped", "killed", "cancelled", "counter", "crossings", "tick",
          "render", "pulse", "off", "disable", "period", "duty", "enable",
          "silence", "failed", "drain"}
    /\ evt \in [blocks : Nat, crossings : Nat]
    /\ clicks \in Nat /\ kind \in Kinds
    /\ tone \in [period : Nat, duty : Nat]
    /\ faults \in 0 .. MaxFaults

NoTone  == [period |-> 0, duty |-> 0]
NoEvent == [blocks |-> 0, crossings |-> 0]

Init ==
    /\ kpc = "idle" /\ anyIo = FALSE /\ endTrack \in Tracks
    /\ blocks = 0 /\ crossings = 0 /\ notified = FALSE
    /\ enable = FALSE /\ period = 0 /\ duty = 0
    /\ mute = FALSE /\ enabled = TRUE /\ volume \in Volumes /\ apc = "idle"
    /\ lpc = "stopped" /\ poller = FALSE
    /\ primed = FALSE /\ evt = NoEvent
    /\ clicks = 0 /\ kind = "silence" /\ tone = NoTone
    /\ faults = 0

-----------------------------------------------------------------------------
(* floppy_io_event_record.                                                  *)
Distance(t, u) == IF t > u THEN t - u ELSE u - t

Stepped(start, end) ==
    (end - start) + (IF anyIo THEN Distance(start, endTrack) ELSE 0)

\* A request from track start to track end.
Record(start, end) ==
    /\ kpc = "idle" /\ start <= end
    /\ blocks < MaxUnheard
    /\ crossings + Stepped(start, end) <= MaxUnheard
    /\ crossings' = crossings + Stepped(start, end)
    /\ kpc' = IF Stepped(start, end) > 0 THEN "notify" ELSE "account"
    /\ endTrack' = end
    /\ UNCHANGED <<anyIo, blocks, notified, pwmVars, setVars, lpc,
                   poller, smVars, cmdVars, faults>>

\* sysfs_notify wakes who has the attribute open; the request is counted after
\* it.
Notify ==
    /\ kpc = "notify" /\ kpc' = "account"
    /\ notified' = poller
    /\ UNCHANGED <<anyIo, endTrack, countVars, pwmVars, setVars, lpc,
                   poller, smVars, cmdVars, faults>>

Account ==
    /\ kpc = "account" /\ kpc' = "idle"
    /\ blocks' = blocks + 1
    /\ anyIo' = TRUE
    /\ UNCHANGED <<endTrack, crossings, notified, pwmVars, setVars,
                   lpc, poller, smVars, cmdVars, faults>>

-----------------------------------------------------------------------------
(* The settings: post_volume, post_mute, post_buzzer in a thread of their   *)
(* own.                                                                     *)
Running == lpc \notin {"stopped", "killed", "cancelled"}

SetVolume(v) ==
    /\ Running /\ apc = "idle"
    /\ volume' = v
    /\ UNCHANGED <<kernelVars, countVars, notified, pwmVars, mute, enabled,
                   apc, lpc, poller, smVars, cmdVars, faults>>

SetMute(m) ==
    /\ Running /\ apc = "idle"
    /\ mute' = m
    /\ apc' = IF m THEN "silence" ELSE "idle"
    /\ UNCHANGED <<kernelVars, countVars, notified, pwmVars, enabled, volume,
                   lpc, poller, smVars, cmdVars, faults>>

SetEnabled(on) ==
    /\ Running /\ apc = "idle"
    /\ enabled' = on
    /\ apc' = IF on THEN "idle" ELSE "silence"
    /\ UNCHANGED <<kernelVars, countVars, notified, pwmVars, mute, volume,
                   lpc, poller, smVars, cmdVars, faults>>

\* A sysfs access that fails raises OSError.
Fault == faults < MaxFaults /\ faults' = faults + 1

SettingSilence ==
    /\ apc = "silence" /\ apc' = "idle"
    /\ \/ enable' = FALSE /\ UNCHANGED faults
       \/ Fault /\ UNCHANGED enable
    /\ UNCHANGED <<kernelVars, countVars, notified, period, duty, mute,
                   enabled, volume, lpc, poller, smVars, cmdVars>>

-----------------------------------------------------------------------------
(* AudioLoop.run.                                                           *)
At(from, to) == lpc = from /\ lpc' = to

\* open_notify_fd primes the descriptor, if the attribute can be opened.
Start ==
    /\ lpc \in {"stopped", "killed"} /\ lpc' = "counter"
    /\ primed' = FALSE /\ evt' = NoEvent
    /\ poller' \in BOOLEAN
    /\ notified' = FALSE
    /\ UNCHANGED <<kernelVars, countVars, pwmVars, setVars, cmdVars, faults>>

\* SysfsIOEventReader.read, one attribute after the other.
ReadCounter ==
    /\ At("counter", "crossings")
    /\ evt' = [evt EXCEPT !.blocks = blocks]
    /\ UNCHANGED <<kernelVars, countVars, notified, pwmVars, setVars, poller,
                   primed, cmdVars, faults>>

ReadCrossings ==
    /\ At("crossings", "tick")
    /\ evt' = [evt EXCEPT !.crossings = crossings]
    /\ UNCHANGED <<kernelVars, countVars, notified, pwmVars, setVars, poller,
                   primed, cmdVars, faults>>

AtMost(n, m) == IF n < m THEN n ELSE m

\* What FloppyStepDetector.tick makes of the differences.
Commands(delta, counterDelta) ==
    IF ~primed THEN {<<"silence", 0>>}
    ELSE IF delta > 0 THEN {<<"seek_burst", AtMost(delta, MaxBurst)>>}
    ELSE IF counterDelta > 0
         THEN {<<"motor_spin", SpinClicks>>, <<"activity_tick", 1>>,
               <<"silence", 0>>}
    ELSE {<<"silence", 0>>}

DetectorTickTwice ==
    /\ At("tick", "render")
    /\ \E c \in Commands(evt.crossings, evt.blocks) :
         kind' = c[1] /\ clicks' = c[2]
    /\ blocks' = blocks - 2 * evt.blocks
    /\ crossings' = crossings - 2 * evt.crossings
    /\ primed' = TRUE /\ evt' = NoEvent
    /\ UNCHANGED <<kernelVars, notified, pwmVars, setVars, poller, tone, faults>>

DetectorTick ==
    /\ At("tick", "render")
    /\ \E c \in Commands(evt.crossings, evt.blocks) :
         kind' = c[1] /\ clicks' = c[2]
    /\ blocks' = blocks - evt.blocks
    /\ crossings' = crossings - evt.crossings
    /\ primed' = TRUE /\ evt' = NoEvent
    /\ UNCHANGED <<kernelVars, notified, pwmVars, setVars, poller, tone, faults>>

SettleDraining ==
    /\ lpc' = IF poller THEN "poll" ELSE "sleep"
    /\ notified' = FALSE

\* The wait at the end of an iteration: has_pending() is always false.
Settle ==
    /\ lpc' = IF poller THEN "poll" ELSE "sleep"
    /\ UNCHANGED notified

RenderNoSilence ==
    /\ lpc = "render"
    /\ IF kind = "silence" THEN Settle ELSE lpc' = "pulse" /\ UNCHANGED notified
    /\ UNCHANGED <<kernelVars, countVars, pwmVars, setVars, poller, smVars,
                   cmdVars, faults>>

\* render: one pulse per click, or silence.
Render ==
    /\ lpc = "render"
    /\ lpc' = IF kind = "silence" THEN "silence" ELSE "pulse"
    /\ UNCHANGED <<kernelVars, countVars, notified, pwmVars, setVars, poller,
                   smVars, cmdVars, faults>>

Band == IF kind = "seek_burst" THEN {1300, 1900}
        ELSE IF kind = "activity_tick" THEN {700, 1100}
        ELSE {750, 1250}

VolumePercent == IF kind = "seek_burst" THEN 100
                 ELSE IF kind = "activity_tick" THEN 35
                 ELSE 65

AudibleWhenMuted == enabled /\ volume > 0
Audible == enabled /\ ~mute /\ volume > 0

DutyUnscaled(p) == (p * volume) \div 200
Duty(p) == (p * VolumePercent * volume) \div (100 * 200)

\* play_tone: the settings are looked at before the channel is written.
PlayTone ==
    /\ lpc = "pulse"
    /\ \/ /\ Audible
          /\ \E hz \in Band : LET p == 10000000 \div hz IN
               tone' = [period |-> p, duty |-> AtMost(p, Duty(p))]
          /\ lpc' = "disable"
       \/ ~Audible /\ lpc' = "off" /\ UNCHANGED tone
    /\ UNCHANGED <<kernelVars, countVars, notified, pwmVars, setVars, poller,
                   smVars, clicks, kind, faults>>

WriteOff ==
    /\ \/ At("disable", "period")
       \/ At("off", "silence")
    /\ enable' = FALSE
    /\ UNCHANGED <<kernelVars, countVars, notified, period, duty, setVars,
                   poller, smVars, cmdVars, faults>>

WritePeriod ==
    /\ At("period", "duty")
    /\ period' = tone.period
    /\ UNCHANGED <<kernelVars, countVars, notified, enable, duty, setVars,
                   poller, smVars, cmdVars, faults>>

WriteDuty ==
    /\ At("duty", "enable")
    /\ duty' = tone.duty
    /\ UNCHANGED <<kernelVars, countVars, notified, enable, period, setVars,
                   poller, smVars, cmdVars, faults>>

WriteOn ==
    /\ At("enable", "silence")
    /\ enable' = TRUE
    /\ tone' = NoTone
    /\ UNCHANGED <<kernelVars, countVars, notified, period, duty, setVars,
                   poller, smVars, clicks, kind, faults>>

\* The end of a pulse, and of the command with the last one.
WriteSilence ==
    /\ lpc = "silence"
    /\ enable' = FALSE
    /\ clicks' = IF clicks > 0 THEN clicks - 1 ELSE 0
    /\ IF clicks > 1 THEN lpc' = "pulse" /\ UNCHANGED <<notified, kind>>
                     ELSE Settle /\ kind' = "silence"
    /\ UNCHANGED <<kernelVars, countVars, period, duty, setVars, poller,
                   smVars, tone, faults>>

\* Any access of a tick may fail.
TickFails ==
    /\ lpc \in {"counter", "crossings", "off", "disable", "period", "duty",
                "enable", "silence"}
    /\ Fault
    /\ lpc' = "failed"
    /\ clicks' = 0 /\ kind' = "silence" /\ tone' = NoTone /\ evt' = NoEvent
    /\ UNCHANGED <<kernelVars, countVars, notified, pwmVars, setVars, poller,
                   primed>>

FailureLogged ==
    /\ lpc = "failed"
    /\ Settle
    /\ UNCHANGED <<kernelVars, countVars, pwmVars, setVars, poller, smVars,
                   cmdVars, faults>>

\* The except clause of run() renders silence, and lets that fail too.
SilenceAfterFailure ==
    /\ lpc = "failed"
    /\ Settle
    /\ \/ enable' = FALSE /\ UNCHANGED faults
       \/ Fault /\ UNCHANGED enable
    /\ UNCHANGED <<kernelVars, countVars, period, duty, setVars, poller,
                   smVars, cmdVars>>

\* poll() returns with an event or after a second.
Wake ==
    /\ \/ At("poll", "drain")
       \/ At("sleep", "counter")
    /\ UNCHANGED <<kernelVars, countVars, notified, pwmVars, setVars, poller,
                   smVars, cmdVars, faults>>

\* _drain_notify.
Drain ==
    /\ At("drain", "counter")
    /\ notified' = FALSE
    /\ UNCHANGED <<kernelVars, countVars, pwmVars, setVars, poller, smVars,
                   cmdVars, faults>>

\* _main_async cancels the task once the server has drained its requests.
Cancel ==
    /\ lpc \in Waiting /\ lpc' = "cancelled"
    /\ apc = "idle"
    /\ UNCHANGED <<kernelVars, countVars, notified, pwmVars, setVars, poller,
                   smVars, cmdVars, faults>>

\* The finally clause closes the descriptor.
SilenceOnShutdown ==
    /\ At("cancelled", "stopped")
    /\ \/ enable' = FALSE /\ UNCHANGED faults
       \/ Fault /\ UNCHANGED enable
    /\ poller' = FALSE /\ notified' = FALSE /\ primed' = FALSE
    /\ UNCHANGED <<kernelVars, countVars, period, duty, setVars, evt, cmdVars>>

\* The process dies; systemd starts it again.
Kill ==
    /\ Running /\ Fault
    /\ lpc' = "killed" /\ apc' = "idle"
    /\ clicks' = 0 /\ kind' = "silence" /\ tone' = NoTone /\ evt' = NoEvent
    /\ poller' = FALSE /\ notified' = FALSE /\ primed' = FALSE
    /\ UNCHANGED <<kernelVars, countVars, pwmVars, mute, enabled, volume>>

-----------------------------------------------------------------------------
LoopStep ==
    \/ ReadCounter \/ ReadCrossings \/ DetectorTick \/ Render
    \/ PlayTone \/ WriteOff \/ WritePeriod \/ WriteDuty \/ WriteOn
    \/ WriteSilence \/ TickFails \/ SilenceAfterFailure \/ Wake \/ Drain
    \/ SilenceOnShutdown

Next ==
    \/ \E start, end \in Tracks : Record(start, end)
    \/ Notify \/ Account
    \/ \E v \in Volumes : SetVolume(v)
    \/ \E b \in BOOLEAN : SetMute(b) \/ SetEnabled(b)
    \/ SettingSilence
    \/ LoopStep \/ Start \/ Cancel \/ Kill

\* The loop is never blocked for more than a second, the threads run, and
\* systemd restarts a service that was killed (Restart=on-failure).
Fairness ==
    /\ WF_vars(LoopStep) /\ WF_vars(SettingSilence)
    /\ WF_vars(lpc = "killed" /\ Start)

Spec == Init /\ [][Next]_vars /\ Fairness

-----------------------------------------------------------------------------
(* Properties.                                                              *)

(* A loop that blocks in poll() on seeks it has not heard of has an event  *)
(* waiting for it, or the kthread about to give it one: it drains the fd   *)
(* before it reads the counters, and the kthread counts before it notifies,*)
(* so no seek waits for the one-second timeout (loop.py:38).               *)
NoLostWakeup ==
    lpc = "poll" /\ crossings > 0 /\ faults = 0 =>
        notified \/ kpc = "notify"

(* renderer.py:88: a stuck-on tone is worse than a missed click.  Whatever *)
(* one access fails and however the settings change meanwhile, the PWM is  *)
(* off whenever the loop waits, and after a shutdown.                      *)
NoStuckTone ==
    lpc \in Waiting \union {"stopped"} /\ faults <= 1 => ~enable

(* buzzer.py:92: the kernel refuses a period below the duty cycle.  With   *)
(* the renderer's frequency bands and volume scales the duty cycle of one  *)
(* tone always fits into the period of the next, at every volume.          *)
DutyFitsPeriod == lpc \in {"duty", "enable"} => duty <= period

(* A tone always ends, though both the write that ends it and the one of   *)
(* the except clause that makes up for it may fail, or the service be      *)
(* killed while it sounds: the next tick, or the shutdown, silences it.    *)
(* This takes at most MaxFaults = 2: where the last write of a service     *)
(* that is stopped fails as well (loop.py:138), the tone stays.            *)
ToneEnds == enable ~> ~enable

(* A client that mutes or disables the buzzer and leaves it so is rid of   *)
(* it, though a pulse that looked at the settings before may still sound.  *)
MuteHolds == <>[](mute \/ ~enabled) => <>[]~enable
================================================================================
