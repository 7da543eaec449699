----------------------------- MODULE PacketRelay -----------------------------
(***************************************************************************)
(* What the IMU parser promises the listeners of its broadcast, with no    *)
(* byte, buffer or read call in sight: a relay that may skip packets but   *)
(* never invents, alters, repeats or reorders one, and that skips at most  *)
(* MaxSkip packets after each one it takes.  ImuParser implements it.      *)
(***************************************************************************)
EXTENDS Integers, Sequences

CONSTANTS Packets,    \* the packets the IMU may send
          MaxSkip     \* a number: most packets lost behind a packet that is taken

VARIABLES sent,       \* packets the IMU has sent, oldest first
          passed,     \* how many of them are taken or lost for good
          held,       \* <<>>, or the one packet taken and not yet delivered
          delivered   \* packets delivered, oldest first

vars == <<sent, passed, held, delivered>>

(* The relay may start when the IMU is already running: of a first packet  *)
(* that is already on the line it may have missed the beginning.           *)
Init ==
  /\ sent \in {<<>>} \cup {<<p>> : p \in Packets}
  /\ passed \in 0..Len(sent)
  /\ held = <<>>
  /\ delivered = <<>>

Send ==
  /\ \E p \in Packets : sent' = Append(sent, p)
  /\ UNCHANGED <<passed, held, delivered>>

(* The next packet is taken, and with it the skipped packets behind it go. *)
Take ==
  \E skipped \in 0..MaxSkip :
    /\ held = <<>>
    /\ passed + 1 + skipped <= Len(sent)
    /\ held' = <<sent[passed + 1]>>
    /\ passed' = passed + 1 + skipped
    /\ UNCHANGED <<sent, delivered>>

Deliver ==
  /\ held # <<>>
  /\ delivered' = delivered \o held
  /\ held' = <<>>
  /\ UNCHANGED <<sent, passed>>

Lose ==
  /\ held # <<>>
  /\ held' = <<>>
  /\ UNCHANGED <<sent, passed, delivered>>

Next == Send \/ Take \/ Deliver \/ Lose

Spec == Init /\ [][Next]_vars
-----------------------------------------------------------------------------
TypeOK ==
  /\ sent \in Seq(Packets)
  /\ passed \in 0..Len(sent)
  /\ held \in {<<>>} \cup {<<p>> : p \in Packets}
  /\ delivered \in Seq(Packets)

Taken == delivered \o held

(* The packets taken are a subsequence of the packets sent: they can be    *)
(* matched one to one, in order, with packets that have passed.            *)
Increasing(f) == \A i, j \in DOMAIN f : i < j => f[i] < f[j]

InOrder ==
  \E origin \in [1..Len(Taken) -> 1..passed] :
    /\ Increasing(origin)
    /\ \A i \in 1..Len(Taken) : Taken[i] = sent[origin[i]]
=============================================================================
