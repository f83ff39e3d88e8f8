--------------------------- MODULE AstralChannels ---------------------------
(***************************************************************************)
(* The way of a measurement from a pin to a reader: the chip's register    *)
(* block, the driver's decoding and bounds (driver/astral_regs.c), the     *)
(* hwmon attributes (driver/astral_hwmon.c), and the programs that read    *)
(* them one by one (guard_read_sample(), the oracle's read_hwmon_pins(),   *)
(* sensors(1) by label), with the oracle's own decoder beside it           *)
(* (src/astral_oracle/decode.py, i2c.py).                                  *)
(*                                                                         *)
(* The block holds the pins in reverse order, voltages are numbered from 0 *)
(* and currents from 1. The chip's values change, and the driver's frame   *)
(* expires, between any two reads.                                         *)
(***************************************************************************)
EXTENDS Integers

CONSTANTS
    PinCount,       \* ASTRAL_PIN_COUNT, PIN_COUNT, GUARD_PINS
    MvMin, MvMax, MaMax,    \* the driver's bounds: ASTRAL_MV_MIN ...
    GuardMvMin, GuardMvMax, GuardMaMax, \* the guard's: GUARD_MV_MIN ...
    PlausibleMv, PlausibleMa,   \* the oracle's ranges: PLAUSIBLE_MV, ..._MA
    Chips           \* what the chip may measure

Pins == 1 .. PinCount
Channels == 0 .. PinCount - 1
U16 == 0 .. 65535

ASSUME ChannelsAssumption ==
    /\ PinCount \in Nat \ {0}
    /\ MvMin \in Nat \ {0} /\ MvMax \in Nat /\ MaMax \in Nat
    /\ GuardMvMin \in Nat /\ GuardMvMax \in Nat /\ GuardMaMax \in Nat
    /\ PlausibleMv \subseteq Int /\ PlausibleMa \subseteq Int
    /\ Chips \subseteq [Pins -> [mv : U16, ma : U16]]

VARIABLES
    chip,           \* what the pins carry
    frame,          \* the driver's cached frame
    fresh,          \* may it be read without a transfer?
    of,             \* history: what the pins carried when it was taken
    reader,         \* the program taking a sample
    n,              \* the attributes it has read
    sample,         \* the sample so far
    failed,         \* why the sample failed, "no" while it has not
    seen            \* history: the chip contents behind the sample

driver == <<frame, fresh, of>>
vars == <<chip, driver, reader, n, sample, failed, seen>>

-----------------------------------------------------------------------------
(* The chip and the transfer.                                              *)

BlockLen == 4 * PinCount
Offsets == 0 .. BlockLen - 1

(* Each pin has four bytes, its millivolts before its milliamps, each with *)
(* the high byte first; the last pin comes first.                          *)
Block(c) ==
    [o \in Offsets |->
        LET pin == PinCount - o \div 4
            value == IF o % 4 < 2 THEN c[pin].mv ELSE c[pin].ma
        IN IF o % 2 = 0 THEN value \div 256 ELSE value % 256]

(* A block read: its bytes and how many there are. A repeated-START read   *)
(* gives zeros; bytes past the count are left over from before.            *)
Outcomes == {"full", "short", "zeros", "error"}
Transfer(outcome, c) ==
    CASE outcome = "full" -> [len |-> BlockLen, buf |-> Block(c)]
      [] outcome = "zeros" -> [len |-> BlockLen, buf |-> [o \in Offsets |-> 0]]
      [] outcome = "short" -> [len |-> BlockLen - 1, buf |-> Block(c)]
      [] OTHER -> [len |-> -1, buf |-> Block(c)]

U16Be(buf, offset) == buf[offset] * 256 + buf[offset + 1]

-----------------------------------------------------------------------------
(* The driver.                                                             *)

DecodeFrame(buf) ==
    LET Base(pin) == (PinCount - 1 - pin) * 4
    IN [millivolts |-> [pin \in Channels |-> U16Be(buf, Base(pin))],
        milliamps |-> [pin \in Channels |-> U16Be(buf, Base(pin) + 2)]]

FramePlausible(f) ==
    \A pin \in Channels :
        /\ f.millivolts[pin] >= MvMin /\ f.millivolts[pin] <= MvMax
        /\ f.milliamps[pin] <= MaMax

(* astral_read_frame() and the verdict of astral_refresh_locked().         *)
Published(transfer) ==
    transfer.len = BlockLen /\ FramePlausible(DecodeFrame(transfer.buf))

(* astral_read(): an attribute's number, less its type's first, is the     *)
(* channel. The labels are the array of that type.                         *)
Channel(attr) == IF attr[1] = "in" THEN attr[2] ELSE attr[2] - 1
Value(f, attr) ==
    IF attr[1] = "in" THEN f.millivolts[Channel(attr)] ELSE f.milliamps[Channel(attr)]
LabelPin(attr) == Channel(attr) + 1

-----------------------------------------------------------------------------
(* The oracle's decoder, which raises on the first pin out of bounds.      *)

Raised == <<>>      \* a FrameError: no readings

Pin(buf, pin) ==
    LET base == (PinCount - pin) * 4
    IN [mv |-> U16Be(buf, base), ma |-> U16Be(buf, base + 2)]

InRange(x) == x.mv \in PlausibleMv /\ x.ma \in PlausibleMa

(* read_block() wants every byte; decode_frame().                          *)
OracleReads(transfer) ==
    IF transfer.len = BlockLen /\ \A pin \in Pins : InRange(Pin(transfer.buf, pin))
    THEN [pin \in Pins |-> Pin(transfer.buf, pin)]
    ELSE Raised

-----------------------------------------------------------------------------
(* The readers: the attribute each reads next, and where the value goes.   *)

Places == {"mv", "ma"} \X Pins
NoValue == -1

(* Mutant: the pin order of the block undone once more.                    *)
GuardNextReversed(m) ==
    LET pin == m \div 2
    IN IF m % 2 = 0
       THEN [attr |-> <<"in", pin>>, into |-> <<"mv", pin + 1>>]
       ELSE [attr |-> <<"curr", PinCount - pin>>, into |-> <<"ma", pin + 1>>]

GuardNext(m) ==
    LET pin == m \div 2
    IN IF m % 2 = 0
       THEN [attr |-> <<"in", pin>>, into |-> <<"mv", pin + 1>>]
       ELSE [attr |-> <<"curr", pin + 1>>, into |-> <<"ma", pin + 1>>]

OracleNext(m) ==
    LET pin == m \div 2 + 1
    IN IF m % 2 = 0
       THEN [attr |-> <<"in", pin - 1>>, into |-> <<"mv", pin>>]
       ELSE [attr |-> <<"curr", pin>>, into |-> <<"ma", pin>>]

(* sensors(1) lists the attributes by type and shows each by its label.    *)
SensorsNext(m) ==
    LET attr == IF m < PinCount THEN <<"in", m>> ELSE <<"curr", m - PinCount + 1>>
    IN [attr |-> attr,
        into |-> <<IF attr[1] = "in" THEN "mv" ELSE "ma", LabelPin(attr)>>]

Readers == {"guard", "hwmon.py", "sensors"}
NextRead ==
    CASE reader = "guard" -> GuardNext(n)
      [] reader = "hwmon.py" -> OracleNext(n)
      [] OTHER -> SensorsNext(n)

(* read_int_attr() with the guard's bounds; the others take what is there. *)
GuardAccepts(attr, v) ==
    IF attr[1] = "in" THEN v \in GuardMvMin .. GuardMvMax ELSE v \in 0 .. GuardMaMax

Accepts(attr, v) == reader = "guard" => GuardAccepts(attr, v)

-----------------------------------------------------------------------------
Begin ==
    /\ n = 0
    /\ sample = [place \in Places |-> NoValue]
    /\ failed = "no"
    /\ seen = {}

(* The first frame was published by the attach.                            *)
Init ==
    /\ chip \in Chips
    /\ Published(Transfer("full", chip))
    /\ frame = DecodeFrame(Block(chip))
    /\ fresh = TRUE
    /\ of = chip
    /\ reader \in Readers
    /\ Begin

ChipMoves ==
    /\ chip' \in Chips
    /\ UNCHANGED <<driver, reader, n, sample, failed, seen>>

Expire ==
    /\ fresh
    /\ fresh' = FALSE
    /\ UNCHANGED <<chip, frame, of, reader, n, sample, failed, seen>>

(* The value goes to its place, or the sample fails on it.                 *)
Take(f, contents) ==
    LET next == NextRead
        v == Value(f, next.attr)
    IN /\ IF Accepts(next.attr, v)
          THEN /\ sample' = [sample EXCEPT ![next.into] = v]
               /\ n' = n + 1
               /\ UNCHANGED failed
          ELSE failed' = "value" /\ UNCHANGED <<sample, n>>
       /\ seen' = seen \cup {contents}
       /\ UNCHANGED <<chip, reader>>

Sampling == failed = "no" /\ n < 2 * PinCount

ReadCached ==
    /\ Sampling
    /\ fresh
    /\ Take(frame, of)
    /\ UNCHANGED driver

ReadTransferred(outcome) ==
    LET transfer == Transfer(outcome, chip) IN
    /\ Sampling
    /\ ~fresh
    /\ Published(transfer)
    /\ frame' = DecodeFrame(transfer.buf)
    /\ fresh' = TRUE
    /\ of' = chip
    /\ Take(frame', chip)

(* The driver refuses: the reader gets -EIO.                               *)
ReadRefused(outcome) ==
    /\ Sampling
    /\ ~fresh
    /\ ~Published(Transfer(outcome, chip))
    /\ failed' = "EIO"
    /\ UNCHANGED <<chip, driver, reader, n, sample, seen>>

(* Another sample, by any program.                                         *)
Again ==
    /\ ~Sampling
    /\ reader' \in Readers
    /\ n' = 0
    /\ sample' = [place \in Places |-> NoValue]
    /\ failed' = "no"
    /\ seen' = {}
    /\ UNCHANGED <<chip, driver>>

Next ==
    \/ ChipMoves \/ Expire \/ ReadCached \/ Again
    \/ \E outcome \in Outcomes : ReadTransferred(outcome) \/ ReadRefused(outcome)

Spec == Init /\ [][Next]_vars

-----------------------------------------------------------------------------

(* Whatever frames came and went while a sample was read attribute by      *)
(* attribute, each of its values is the right quantity of the right pin in *)
(* one of the frames read, and so all from one frame if the cache lasted:  *)
(* no numbering, byte order or label moves a reading to another pin.       *)
SampleOfThePins ==
    \A pin \in Pins :
        /\ sample[<<"mv", pin>>] # NoValue =>
              \E c \in seen : sample[<<"mv", pin>>] = c[pin].mv
        /\ sample[<<"ma", pin>>] # NoValue =>
              \E c \in seen : sample[<<"ma", pin>>] = c[pin].ma

(* The two decoders, one validating the whole frame and one each pin, give *)
(* the same answer to every transfer, a fault or the same six readings:    *)
(* the ranges of decode.py:31-32 end where the bounds of astral.h:28-30 do.*)
OracleAgrees ==
    \A outcome \in Outcomes :
        LET transfer == Transfer(outcome, chip)
            f == DecodeFrame(transfer.buf)
        IN OracleReads(transfer) =
              IF Published(transfer)
              THEN [pin \in Pins |-> [mv |-> f.millivolts[pin - 1],
                                      ma |-> f.milliamps[pin - 1]]]
              ELSE Raised

(* The guard's bounds, a copy of its own (guard/astral_guard.h:29-43),     *)
(* never refuse what the driver publishes; and no reader, the two that     *)
(* check nothing included, is given a voltage or a current out of the      *)
(* driver's bounds.                                                        *)
GuardTakesWhatIsPublished ==
    /\ failed # "value"
    /\ \A pin \in Pins :
          /\ sample[<<"mv", pin>>] \in {NoValue} \cup MvMin .. MvMax
          /\ sample[<<"ma", pin>>] \in {NoValue} \cup 0 .. MaMax
=============================================================================
