-------------------------------- MODULE HLC --------------------------------
(***************************************************************************)
(* internal/clock: a node's clock with its offset (sync.go), the hybrid    *)
(* logical clock on top of it (hlc.go), and a timestamp's way through a    *)
(* datagram (cmd/test_integration_final).  The package is used by the      *)
(* drivers only.  Time is a number of nanoseconds.                         *)
(***************************************************************************)
EXTENDS Integers

CONSTANTS
  Node,
  Offsets,    \* the offsets clocks may have; only their differences matter
  Grain       \* distance of two float64 near UnixNano: 256 until 2043

ASSUME ClockAssumption ==
  /\ Offsets \subseteq Nat /\ Offsets # {}
  /\ Grain \in Nat \ {0}

VARIABLES
  time,     \* the time all clocks are off from
  offset,   \* Clock.offset
  last      \* HLC.last

clockVars == <<time, offset, last>>

Timestamp == [Physical : Nat, Logical : Nat]
Stamp(p, l) == [Physical |-> p, Logical |-> l]

(* The order of Buffer.Flush.                                              *)
Before(a, b) ==
  \/ a.Physical < b.Physical
  \/ a.Physical = b.Physical /\ a.Logical < b.Logical

(* Clock.Now *)
LocalTime(n) == time + offset[n]

(* HLC.Now for a node whose clock shows now.  Mutation: the clock is       *)
(* trusted not to stand still or go back.                                  *)
StampOfClock(l, now) == Stamp(now, 0)
StampOf(l, now) ==
  IF now > l.Physical THEN Stamp(now, 0) ELSE Stamp(l.Physical, l.Logical + 1)

(* HLC.Update.  Mutations: the remote timestamp, or the node's own last    *)
(* one, is left out.                                                       *)
MergeOfLocal(l, remote, now) == StampOf(l, now)
MergeOfRemote(l, remote, now) == StampOf(remote, now)
MaxOf(a, b) == IF a > b THEN a ELSE b
MergeOf(l, remote, now) ==
  LET physical == MaxOf(now, MaxOf(l.Physical, remote.Physical))
      logical ==
        CASE physical = l.Physical /\ physical = remote.Physical -> MaxOf(l.Logical, remote.Logical) + 1
          [] physical = l.Physical /\ physical # remote.Physical -> l.Logical + 1
          [] physical # l.Physical /\ physical = remote.Physical -> remote.Logical + 1
          [] OTHER -> 0
  IN  Stamp(physical, logical)


(* A number in a JSON payload is decoded as a float64, which toInt64 turns *)
(* back: an int64 becomes the nearest float64, the even one of two.  The   *)
(* logical part is small and stays as it is.                               *)
Rounded(p) ==
  LET q == p \div Grain
      r == p % Grain
      up == 2 * r > Grain \/ (2 * r = Grain /\ q % 2 = 1)
  IN  p - r + (IF up THEN Grain ELSE 0)
Decoded(ts) == Stamp(Rounded(ts.Physical), ts.Logical)

ClockInit ==
  /\ time = 0
  /\ offset \in [Node -> Offsets]
  /\ last = [n \in Node |-> Stamp(0, 0)]

ClockTypeOK ==
  /\ time \in Nat
  /\ offset \in [Node -> Offsets]
  /\ last \in [Node -> Timestamp]

(* Clock.Sync, or another step of the system's clock: back as well.        *)
Sync(n) ==
  /\ offset' \in {[offset EXCEPT ![n] = o] : o \in Offsets}
  /\ UNCHANGED <<time, last>>

(* HLC.Now and HLC.Update of a node.                                       *)
Now(n) ==
  /\ last' = [last EXCEPT ![n] = StampOf(@, LocalTime(n))]
  /\ UNCHANGED <<time, offset>>

Update(n, remote) ==
  /\ last' = [last EXCEPT ![n] = MergeOf(@, remote, LocalTime(n))]
  /\ UNCHANGED <<time, offset>>
=============================================================================
