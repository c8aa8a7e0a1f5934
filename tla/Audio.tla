------------------------------- MODULE Audio -------------------------------
(***************************************************************************)
(* /dev/audio and /dev/volume (audio.c) over the AC'97 controller          *)
(* (drivers/ac97.c): PCM bytes are gathered in tmp_buffer, a full one is   *)
(* copied to the next of a ring of buffers, and the controller plays from  *)
(* its current entry to the last valid one, then halts.                    *)
(***************************************************************************)
EXTENDS Integers, Sequences, FiniteSetsExt

CONSTANTS AuBuffers,    \* buffers of the ring (32)
          AuSize,       \* bytes of a buffer (128000)
          AuTotal,      \* bound: bytes the program has to play
          AuVolumes     \* numbers written to /dev/volume

ASSUME AudioAssumption == /\ AuBuffers \in Nat \ {0, 1} /\ AuSize \in Nat \ {0}
                          /\ AuTotal \in Nat /\ AuVolumes \subseteq Nat

VARIABLES autmp,      \* tmp_buffer
          aubuf,      \* the ring's buffers
          auentry,    \* entry: the buffer filled next
          audev,      \* the controller: run state, current entry, last valid entry
          audone,     \* bytes audio_write has accepted
          auplayed,   \* bytes that came out of the speaker
          auvol       \* ac97_current_volume and the attenuation it was turned into
au_vars == <<autmp, aubuf, auentry, audev, audone, auplayed, auvol>>

AuInit == /\ autmp = <<>> /\ aubuf = [b \in 0..AuBuffers - 1 |-> <<>>] /\ auentry = 0
          /\ audev = [run |-> "off", civ |-> 0, lvi |-> 0]
          /\ audone = 0 /\ auplayed = <<>> /\ auvol = [now |-> 5, atten |-> 30]

\* The test of ac97_can_write and of write_buffer.
buffer_left ==
  IF auentry >= audev.civ
  THEN AuBuffers - auentry - (IF audev.civ = 0 THEN 1 ELSE 0)
  ELSE audev.civ - auentry - 1

\* The controller when the last valid entry is written and the run bit set: it starts,
\* or goes on with the entry after the one it halted at.
Restart(lvi) ==
  CASE audev.run = "off"  -> [audev EXCEPT !.run = "play", !.lvi = lvi]
    [] audev.run = "play" -> [audev EXCEPT !.lvi = lvi]
    [] audev.run = "halt" -> [run |-> "play", civ |-> (audev.civ + 1) % AuBuffers, lvi |-> lvi]

\* write_buffer of a full tmp_buffer, when there is room for it.
\* Mutant: the index moves on before the last valid entry is set.
write_buffer_bug(data) ==
  /\ aubuf' = [aubuf EXCEPT ![auentry] = data]
  /\ auentry' = (auentry + 1) % AuBuffers
  /\ audev' = Restart(auentry')
  /\ autmp' = <<>>
write_buffer(data) ==
  /\ aubuf' = [aubuf EXCEPT ![auentry] = data]
  /\ audev' = Restart(auentry)
  /\ auentry' = (auentry + 1) % AuBuffers
  /\ autmp' = <<>>

\* The n bytes of the stream after the first so many; a byte is its number.
Stretch(from, n) == [i \in 1..n |-> from + i]

\* The program writes the next len bytes of the stream; it repeats what was not
\* accepted.  A full tmp_buffer that found no room is tried again by the next call,
\* which then accepts nothing.
audio_write(len) ==
  LET wl  == Min({len, AuSize - Len(autmp)})
      tmp == autmp \o Stretch(audone, wl)
  IN  /\ audone' = audone + wl
      /\ IF Len(tmp) = AuSize /\ buffer_left > 0
         THEN write_buffer(tmp)
         ELSE autmp' = tmp /\ UNCHANGED <<aubuf, auentry, audev>>
      /\ UNCHANGED <<auplayed, auvol>>

\* The controller reaches the end of its current buffer.
buffer_played ==
  /\ audev.run = "play"
  /\ auplayed' = auplayed \o aubuf[audev.civ]
  /\ audev' = IF audev.civ = audev.lvi THEN [audev EXCEPT !.run = "halt"]
              ELSE [audev EXCEPT !.civ = (@ + 1) % AuBuffers]
  /\ UNCHANGED <<autmp, aubuf, auentry, audone, auvol>>

\* A level of 0 is turned into no attenuation at all.
ac97_set_volume(volume) == [now |-> volume, atten |-> IF volume = 0 THEN 0 ELSE 31 - (31 * volume) \div 100]
\* A number above 100 counts as 0.
volume_write(v) == /\ auvol' = ac97_set_volume(IF v > 100 THEN 0 ELSE v)
                   /\ UNCHANGED <<autmp, aubuf, auentry, audev, audone, auplayed>>

AuWrite == \E len \in 1..AuTotal - audone : audio_write(len)
AuNext == AuWrite \/ buffer_played \/ \E v \in AuVolumes : volume_write(v)
AuSpec == AuInit /\ [][AuNext]_au_vars
-----------------------------------------------------------------------------
\* The buffers the controller has still to play, from its current entry to the last
\* valid one.
Queued == IF audev.run = "play" THEN ((audev.lvi - audev.civ + AuBuffers) % AuBuffers) + 1 ELSE 0
Upcoming(k) == aubuf[(audev.civ + k) % AuBuffers]

\* Every byte accepted is in exactly one place and in its order: played, in the ring
\* between the controller's entry and the last valid one, or gathered; so no buffer is
\* overwritten before it was played and none is played twice (write_buffer racing the
\* controller).
AudioExact ==
  LET heard == Len(auplayed)
  IN  /\ auplayed = Stretch(0, heard)
      /\ \A k \in 0..Queued - 1 : Upcoming(k) = Stretch(heard + k * AuSize, AuSize)
      /\ autmp = Stretch(heard + Queued * AuSize, Len(autmp))
      /\ audone = heard + Queued * AuSize + Len(autmp)

\* Turning the volume up, from a level that is not 0, never makes it quieter
\* (ac97_set_volume).
VolumeOrder == \A v \in 1..100 : auvol.now > 0 /\ v >= auvol.now => ac97_set_volume(v).atten <= auvol.atten

\* What is heard is what was written, once and in order, as loud as it was asked for
\* (audio_write, write_buffer and the controller's index; ac97_set_volume).
AudioSound == AudioExact /\ VolumeOrder
=============================================================================
