------------------------ MODULE AstralChannelsProofs ------------------------
(***************************************************************************)
(* Pins, channels and readers, for a connector of any number of pins, any  *)
(* bounds and anything the chip may measure.                               *)
(***************************************************************************)
EXTENDS AstralChannels, TLAPS

(* A register's two bytes make it again.                                   *)
LEMMA TwoBytes ==
    ASSUME NEW v \in U16
    PROVE  (v \div 256) * 256 + (v % 256) = v
BY DEF U16

LEMMA Registers ==
    ASSUME NEW c \in Chips, NEW pin \in Pins
    PROVE  /\ c[pin].mv \in U16 /\ c[pin].ma \in U16
           /\ c[pin].mv \in Nat /\ c[pin].ma \in Nat
<1>1. c[pin].mv \in U16 /\ c[pin].ma \in U16
  BY ChannelsAssumption
<1>2. \A v \in U16 : v \in Nat
  BY DEF U16
<1>3. QED
  BY <1>1, <1>2

(* The four bytes of a group of the block, the last pin's group first.     *)
LEMMA GroupBytes ==
    ASSUME NEW q \in 0 .. PinCount - 1
    PROVE  /\ {q * 4, q * 4 + 1, q * 4 + 2, q * 4 + 3} \subseteq Offsets
           /\ (q * 4) \div 4 = q /\ (q * 4) % 4 = 0 /\ (q * 4) % 2 = 0
           /\ (q * 4 + 1) \div 4 = q /\ (q * 4 + 1) % 4 = 1
           /\ (q * 4 + 1) % 2 = 1
           /\ (q * 4 + 2) \div 4 = q /\ (q * 4 + 2) % 4 = 2
           /\ (q * 4 + 2) % 2 = 0
           /\ (q * 4 + 3) \div 4 = q /\ (q * 4 + 3) % 4 = 3
           /\ (q * 4 + 3) % 2 = 1
BY ChannelsAssumption DEF Offsets, BlockLen

LEMMA GroupReads ==
    ASSUME NEW c \in Chips, NEW q \in 0 .. PinCount - 1
    PROVE  /\ U16Be(Block(c), q * 4) = c[PinCount - q].mv
           /\ U16Be(Block(c), q * 4 + 2) = c[PinCount - q].ma
<1> DEFINE pin == PinCount - q
<1>1. pin \in Pins
  BY ChannelsAssumption DEF Pins
<1>2. c[pin].mv \in U16 /\ c[pin].ma \in U16
  BY <1>1, Registers
<1>3. /\ Block(c)[q * 4] = c[pin].mv \div 256
      /\ Block(c)[q * 4 + 1] = c[pin].mv % 256
      /\ Block(c)[q * 4 + 2] = c[pin].ma \div 256
      /\ Block(c)[q * 4 + 3] = c[pin].ma % 256
  BY GroupBytes DEF Block
<1>4. q * 4 + 2 + 1 = q * 4 + 3
  OBVIOUS
<1>5. QED
  BY <1>2, <1>3, <1>4, TwoBytes DEF U16Be

(* The driver's frame is what the pins carry, channel by channel.          *)
LEMMA FrameOfTheChip ==
    ASSUME NEW c \in Chips, NEW channel \in Channels
    PROVE  /\ DecodeFrame(Block(c)).millivolts[channel] = c[channel + 1].mv
           /\ DecodeFrame(Block(c)).milliamps[channel] = c[channel + 1].ma
<1> DEFINE q == PinCount - 1 - channel
<1>1. q \in 0 .. PinCount - 1 /\ PinCount - q = channel + 1
  BY ChannelsAssumption DEF Channels
<1>2. /\ DecodeFrame(Block(c)).millivolts[channel] = U16Be(Block(c), q * 4)
      /\ DecodeFrame(Block(c)).milliamps[channel] = U16Be(Block(c), q * 4 + 2)
  BY DEF DecodeFrame
<1> HIDE DEF q
<1>3. QED
  BY <1>1, <1>2, GroupReads

(* Whatever a reader asks for next, it puts it where it belongs.           *)
Belongs(place, c) == IF place[1] = "mv" THEN c[place[2]].mv ELSE c[place[2]].ma

LEMMA ReadsBelong ==
    ASSUME NEW c \in Chips, reader \in Readers, n \in 0 .. 2 * PinCount - 1
    PROVE  /\ NextRead.into \in Places
           /\ Value(DecodeFrame(Block(c)), NextRead.attr) = Belongs(NextRead.into, c)
           /\ NextRead.attr[1] = "in" <=> NextRead.into[1] = "mv"
<1> USE ChannelsAssumption DEF Places, Value, Channel, Belongs, Pins, Channels
<1> DEFINE q == n \div 2
           voltage == [attr |-> <<"in", q>>, into |-> <<"mv", q + 1>>]
           current == [attr |-> <<"curr", q + 1>>, into |-> <<"ma", q + 1>>]
<1>1. q \in 0 .. PinCount - 1 /\ q + 1 \in 1 .. PinCount /\ q + 1 - 1 = q
  OBVIOUS
<1>2. CASE reader \in {"guard", "hwmon.py"}
  <2>1. NextRead = IF n % 2 = 0 THEN voltage ELSE current
    <3>1. GuardNext(n) = IF n % 2 = 0 THEN voltage ELSE current
      BY DEF GuardNext
    <3>2. OracleNext(n) = IF n % 2 = 0 THEN voltage ELSE current
      <4>1. OracleNext(n) =
               IF n % 2 = 0 THEN [attr |-> <<"in", q + 1 - 1>>, into |-> <<"mv", q + 1>>]
                            ELSE current
        BY DEF OracleNext
      <4> HIDE DEF q
      <4>2. QED
        BY <1>1, <4>1
    <3> HIDE DEF q, voltage, current
    <3>3. QED
      BY <1>2, <3>1, <3>2 DEF NextRead
  <2> HIDE DEF q
  <2>2. CASE NextRead = voltage
    BY <1>1, <2>2, FrameOfTheChip
  <2>3. CASE NextRead = current
    BY <1>1, <2>3, FrameOfTheChip
  <2> HIDE DEF voltage, current
  <2>4. QED
    BY <2>1, <2>2, <2>3
<1>3. CASE reader = "sensors"
  <2>1. CASE n < PinCount
    <3>1. NextRead = [attr |-> <<"in", n>>, into |-> <<"mv", n + 1>>]
      BY <1>3, <2>1 DEF NextRead, SensorsNext, LabelPin
    <3>2. n \in 0 .. PinCount - 1 /\ n + 1 \in 1 .. PinCount
      BY <2>1
    <3>3. QED
      BY <3>1, <3>2, FrameOfTheChip
  <2>2. CASE n >= PinCount
    <3>1. /\ n - PinCount \in 0 .. PinCount - 1
          /\ n - PinCount + 1 \in 1 .. PinCount
          /\ n - PinCount + 1 - 1 = n - PinCount
      BY <2>2
    <3> DEFINE attr == <<"curr", n - PinCount + 1>>
    <3>2. /\ ~(n < PinCount) /\ attr[1] # "in"
          /\ LabelPin(attr) = n - PinCount + 1
      BY <2>2, <3>1 DEF LabelPin
    <3>3. NextRead = [attr |-> attr, into |-> <<"ma", LabelPin(attr)>>]
      BY <1>3, <3>2, Zenon DEF NextRead, SensorsNext
    <3>4. QED
      BY <3>1, <3>2, <3>3, FrameOfTheChip
  <2>3. QED
    BY <2>1, <2>2
<1>4. QED
  BY <1>2, <1>3 DEF Readers

-----------------------------------------------------------------------------
Sound(c) == \A pin \in Pins : c[pin].mv \in MvMin .. MvMax /\ c[pin].ma \in 0 .. MaMax

(* The driver publishes nothing but a whole block within its bounds.       *)
LEMMA PublishedIsSound ==
    ASSUME NEW c \in Chips, NEW outcome \in Outcomes,
           Published(Transfer(outcome, c))
    PROVE  Transfer(outcome, c).buf = Block(c) /\ Sound(c)
<1>1. outcome # "short" /\ outcome # "error"
  BY ChannelsAssumption DEF Published, Transfer, BlockLen
<1>2. outcome # "zeros"
  <2> SUFFICES ASSUME outcome = "zeros" PROVE FALSE
    OBVIOUS
  <2> DEFINE buf == [o \in Offsets |-> 0]
  <2>1. FramePlausible(DecodeFrame(buf))
    BY DEF Published, Transfer
  <2>2. 0 \in Channels /\ 0 \in 0 .. PinCount - 1 /\ PinCount - 1 \in 0 .. PinCount - 1
    BY ChannelsAssumption DEF Channels
  <2>3. DecodeFrame(buf).millivolts[0] = U16Be(buf, (PinCount - 1 - 0) * 4)
    BY <2>2 DEF DecodeFrame
  <2>4. U16Be(buf, (PinCount - 1) * 4) = 0
    BY <2>2, GroupBytes DEF U16Be
  <2>5. PinCount - 1 - 0 = PinCount - 1
    BY ChannelsAssumption
  <2>6. 0 >= MvMin
    BY <2>1, <2>2, <2>3, <2>4, <2>5 DEF FramePlausible
  <2>7. QED
    BY <2>6, ChannelsAssumption
<1>3. Transfer(outcome, c).buf = Block(c)
  BY <1>1, <1>2 DEF Outcomes, Transfer
<1>4. FramePlausible(DecodeFrame(Block(c)))
  BY <1>3 DEF Published
<1>5. Sound(c)
  <2> SUFFICES ASSUME NEW pin \in Pins
               PROVE  c[pin].mv \in MvMin .. MvMax /\ c[pin].ma \in 0 .. MaMax
    BY DEF Sound
  <2>1. pin - 1 \in Channels /\ pin - 1 + 1 = pin
    BY ChannelsAssumption DEF Pins, Channels
  <2>2. c[pin].mv \in Nat /\ c[pin].ma \in Nat
    BY Registers
  <2>3. c[pin].mv >= MvMin /\ c[pin].mv <= MvMax /\ c[pin].ma <= MaMax
    BY <1>4, <2>1, FrameOfTheChip DEF FramePlausible
  <2>4. MvMin \in Nat /\ MvMax \in Nat /\ MaMax \in Nat
    BY ChannelsAssumption
  <2> HIDE DEF Pins
  <2>5. QED
    BY <2>2, <2>3, <2>4
<1>6. QED
  BY <1>3, <1>5

(* The guard's bounds are nowhere tighter than the driver's.               *)
GuardNoTighter ==
    GuardMvMin <= MvMin /\ MvMax <= GuardMvMax /\ MaMax <= GuardMaMax

(* The oracle's ranges are the driver's bounds.                            *)
OracleSameRanges == PlausibleMv = MvMin .. MvMax /\ PlausibleMa = 0 .. MaMax

(* What every value of a sample, and the cached frame, come from.          *)
SampleInv ==
    /\ chip \in Chips /\ of \in Chips
    /\ frame = DecodeFrame(Block(of)) /\ Sound(of)
    /\ reader \in Readers
    /\ n \in 0 .. 2 * PinCount
    /\ failed \in {"no", "EIO", "value"}
    /\ \A c \in seen : c \in Chips /\ Sound(c)
    /\ DOMAIN sample = Places
    /\ \A place \in Places :
          sample[place] = NoValue \/ \E c \in seen : sample[place] = Belongs(place, c)

LEMMA SampleBegins ==
    ASSUME SampleInv, seen' = {}, sample' = [place \in Places |-> NoValue], n' = 0,
           failed' = "no", reader' \in Readers, UNCHANGED <<chip, driver>>
    PROVE  SampleInv'
BY ChannelsAssumption DEF SampleInv, driver

LEMMA TakeStep ==
    ASSUME SampleInv, Sampling, NEW c \in Chips, Sound(c),
           Take(DecodeFrame(Block(c)), c)
    PROVE  /\ reader' = reader /\ n' \in 0 .. 2 * PinCount
           /\ failed' \in {"no", "value"}
           /\ GuardNoTighter => failed' = "no"
           /\ seen' = seen \cup {c}
           /\ DOMAIN sample' = Places
           /\ \A place \in Places :
                 sample'[place] = NoValue
                    \/ \E d \in seen' : sample'[place] = Belongs(place, d)
<1> DEFINE next == NextRead
           v == Value(DecodeFrame(Block(c)), next.attr)
<1>1. n \in 0 .. 2 * PinCount - 1 /\ reader \in Readers
  BY ChannelsAssumption DEF Sampling, SampleInv
<1>2. /\ next.into \in Places
      /\ v = Belongs(next.into, c)
      /\ next.attr[1] = "in" <=> next.into[1] = "mv"
  BY <1>1, ReadsBelong
<1>3. GuardNoTighter => Accepts(next.attr, v)
  <2> SUFFICES ASSUME GuardNoTighter PROVE Accepts(next.attr, v)
    OBVIOUS
  <2>1. next.into[2] \in Pins
    BY <1>2 DEF Places
  <2>2. IF next.into[1] = "mv" THEN v \in MvMin .. MvMax ELSE v \in 0 .. MaMax
    BY <1>2, <2>1 DEF Sound, Belongs
  <2> HIDE DEF next, v
  <2>3. IF next.into[1] = "mv" THEN v \in GuardMvMin .. GuardMvMax
                               ELSE v \in 0 .. GuardMaMax
    BY <2>2, ChannelsAssumption DEF GuardNoTighter
  <2>4. QED
    BY <1>2, <2>3 DEF Accepts, GuardAccepts
<1> HIDE DEF next, v
<1>4. /\ \/ sample' = [sample EXCEPT ![next.into] = v] /\ n' = n + 1
            /\ failed' = failed
         \/ /\ sample' = sample /\ n' = n /\ failed' = "value"
            /\ ~Accepts(next.attr, v)
      /\ seen' = seen \cup {c} /\ reader' = reader
  BY DEF Take, next, v
<1>5. /\ n' \in 0 .. 2 * PinCount /\ failed' \in {"no", "value"}
      /\ GuardNoTighter => failed' = "no"
  BY <1>1, <1>3, <1>4, ChannelsAssumption DEF Sampling
<1>6. ASSUME NEW place \in Places
      PROVE  sample'[place] = NoValue
                \/ \E d \in seen' : sample'[place] = Belongs(place, d)
  <2>1. CASE place = next.into
    BY <1>2, <1>4, <2>1 DEF SampleInv
  <2>2. CASE place # next.into
    BY <1>4, <2>2 DEF SampleInv
  <2>3. QED
    BY <2>1, <2>2
<1>7. DOMAIN sample' = Places
  BY <1>4 DEF SampleInv
<1>8. QED
  BY <1>4, <1>5, <1>6, <1>7

LEMMA SampleStep == SampleInv /\ [Next]_vars => SampleInv'
<1> SUFFICES ASSUME SampleInv, [Next]_vars PROVE SampleInv'
  OBVIOUS
<1>1. CASE ChipMoves
  BY <1>1 DEF ChipMoves, SampleInv, driver
<1>2. CASE Expire
  BY <1>2 DEF Expire, SampleInv
<1>3. CASE ReadCached
  <2>1. Take(DecodeFrame(Block(of)), of) /\ Sampling
    BY <1>3 DEF ReadCached, SampleInv
  <2>2. of \in Chips /\ Sound(of)
    BY DEF SampleInv
  <2>3. UNCHANGED <<frame, of, chip>>
    BY <1>3 DEF ReadCached, driver, Take
  <2>4. QED
    BY <2>1, <2>2, <2>3, TakeStep DEF SampleInv
<1>4. ASSUME NEW outcome \in Outcomes, ReadTransferred(outcome) PROVE SampleInv'
  <2>1. chip \in Chips /\ Published(Transfer(outcome, chip)) /\ Sampling
    BY <1>4 DEF ReadTransferred, SampleInv
  <2>2. Transfer(outcome, chip).buf = Block(chip) /\ Sound(chip)
    BY <2>1, PublishedIsSound
  <2>3. /\ frame' = DecodeFrame(Block(chip)) /\ of' = chip
        /\ Take(DecodeFrame(Block(chip)), chip)
    BY <1>4, <2>2 DEF ReadTransferred
  <2>4. chip' = chip
    BY <2>3 DEF Take
  <2>5. QED
    BY <2>1, <2>2, <2>3, <2>4, TakeStep DEF SampleInv
<1>5. ASSUME NEW outcome \in Outcomes, ReadRefused(outcome) PROVE SampleInv'
  BY <1>5 DEF ReadRefused, SampleInv, driver
<1>6. CASE Again
  BY <1>6, SampleBegins DEF Again
<1>7. CASE UNCHANGED vars
  BY <1>7 DEF vars, driver, SampleInv
<1>8. QED
  BY <1>1, <1>2, <1>3, <1>4, <1>5, <1>6, <1>7 DEF Next

LEMMA SampleInit == Init => SampleInv
<1> SUFFICES ASSUME Init PROVE SampleInv
  OBVIOUS
<1>1. Sound(chip)
  BY PublishedIsSound DEF Init, Outcomes
<1>2. QED
  BY <1>1, ChannelsAssumption DEF Init, Begin, SampleInv

-----------------------------------------------------------------------------
(* Every value of a sample is the right quantity of the right pin, whoever *)
(* reads it and however many frames came and went meanwhile.               *)
THEOREM EverySampleIsOfThePins == Spec => []SampleOfThePins
<1>1. SampleInv => SampleOfThePins
  BY DEF SampleInv, SampleOfThePins, Places, Belongs
<1>2. QED
  BY SampleInit, SampleStep, <1>1, PTL DEF Spec

(* A sample fails on a value only if the guard's bounds are tighter.       *)
NotRefused == failed # "value"

LEMMA NoValueRefused ==
    ASSUME GuardNoTighter, SampleInv, NotRefused, [Next]_vars
    PROVE  NotRefused'
<1> SUFFICES failed' # "value"
  BY DEF NotRefused
<1> USE DEF NotRefused
<1>1. CASE ReadCached
  <2>1. Take(DecodeFrame(Block(of)), of) /\ Sampling
    BY <1>1 DEF ReadCached, SampleInv
  <2>2. of \in Chips /\ Sound(of)
    BY DEF SampleInv
  <2>3. QED
    BY <2>1, <2>2, TakeStep
<1>2. ASSUME NEW outcome \in Outcomes, ReadTransferred(outcome)
      PROVE  failed' # "value"
  <2>1. chip \in Chips /\ Published(Transfer(outcome, chip)) /\ Sampling
    BY <1>2 DEF ReadTransferred, SampleInv
  <2>2. Transfer(outcome, chip).buf = Block(chip) /\ Sound(chip)
    BY <2>1, PublishedIsSound
  <2>3. Take(DecodeFrame(Block(chip)), chip)
    BY <1>2, <2>2 DEF ReadTransferred
  <2>4. QED
    BY <2>1, <2>2, <2>3, TakeStep
<1>3. CASE ChipMoves \/ Expire \/ Again \/ UNCHANGED vars
  BY <1>3 DEF ChipMoves, Expire, Again, vars
<1>4. ASSUME NEW outcome \in Outcomes, ReadRefused(outcome)
      PROVE  failed' # "value"
  BY <1>4 DEF ReadRefused
<1>5. QED
  BY <1>1, <1>2, <1>3, <1>4 DEF Next

(* A guard whose bounds are no tighter than the driver's refuses nothing   *)
(* the driver publishes, whatever either's bounds are; and what any reader *)
(* gets is within the driver's.                                            *)
THEOREM GuardNeverRefuses ==
    ASSUME GuardNoTighter
    PROVE  Spec => []GuardTakesWhatIsPublished
<1>1. SampleInv /\ NotRefused => GuardTakesWhatIsPublished
  <2> SUFFICES ASSUME SampleInv, NEW pin \in Pins
               PROVE  /\ sample[<<"mv", pin>>] \in {NoValue} \cup MvMin .. MvMax
                      /\ sample[<<"ma", pin>>] \in {NoValue} \cup 0 .. MaMax
    BY DEF GuardTakesWhatIsPublished, NotRefused
  <2>1. ASSUME NEW place \in Places
        PROVE  sample[place] # NoValue =>
                   \E c \in seen : Sound(c) /\ sample[place] = Belongs(place, c)
    BY DEF SampleInv
  <2>2. <<"mv", pin>> \in Places /\ <<"ma", pin>> \in Places
    BY DEF Places
  <2>3. ASSUME NEW c \in seen, Sound(c)
        PROVE  /\ Belongs(<<"mv", pin>>, c) \in MvMin .. MvMax
               /\ Belongs(<<"ma", pin>>, c) \in 0 .. MaMax
    BY <2>3 DEF Sound, Belongs
  <2>4. QED
    BY <2>1, <2>2, <2>3
<1>2. Init => NotRefused
  BY DEF Init, Begin, NotRefused
<1>3. SampleInv /\ NotRefused /\ [Next]_vars => NotRefused'
  BY GuardNoTighter, NoValueRefused
<1>4. QED
  BY SampleInit, SampleStep, <1>1, <1>2, <1>3, PTL DEF Spec

(* With the driver's bounds for its ranges, the oracle decodes and judges  *)
(* every transfer as the driver does.                                      *)
THEOREM DecodersAgree ==
    ASSUME OracleSameRanges
    PROVE  Spec => []OracleAgrees
<1>1. ASSUME NEW c \in Chips, NEW outcome \in Outcomes
      PROVE  LET transfer == Transfer(outcome, c)
                 f == DecodeFrame(transfer.buf)
             IN OracleReads(transfer) =
                   IF Published(transfer)
                   THEN [pin \in Pins |-> [mv |-> f.millivolts[pin - 1],
                                           ma |-> f.milliamps[pin - 1]]]
                   ELSE Raised
  <2> DEFINE buf == Transfer(outcome, c).buf
             f == DecodeFrame(buf)
  <2>1. ASSUME NEW pin \in Pins
        PROVE  Pin(buf, pin) = [mv |-> f.millivolts[pin - 1],
                                ma |-> f.milliamps[pin - 1]]
    <3>1. /\ pin - 1 \in Channels
          /\ (PinCount - 1 - (pin - 1)) * 4 = (PinCount - pin) * 4
      BY ChannelsAssumption DEF Pins, Channels
    <3> HIDE DEF buf
    <3>2. QED
      BY <3>1 DEF Pin, DecodeFrame
  <2>2. ASSUME NEW q \in 0 .. PinCount - 1
        PROVE  U16Be(buf, q * 4) \in Nat /\ U16Be(buf, q * 4 + 2) \in Nat
    <3>1. CASE outcome = "zeros"
      <4>1. buf = [o \in Offsets |-> 0]
        BY <3>1 DEF Transfer
      <4>2. q * 4 + 2 + 1 = q * 4 + 3
        OBVIOUS
      <4>3. QED
        BY <4>1, <4>2, GroupBytes DEF U16Be
    <3>2. CASE outcome # "zeros"
      <4>1. buf = Block(c)
        BY <3>2 DEF Transfer, Outcomes
      <4>2. PinCount - q \in Pins
        BY ChannelsAssumption DEF Pins
      <4>3. c[PinCount - q].mv \in Nat /\ c[PinCount - q].ma \in Nat
        BY <4>2, Registers
      <4>4. QED
        BY <4>1, <4>3, GroupReads
    <3>3. QED
      BY <3>1, <3>2
  <2>3. ASSUME NEW channel \in Channels
        PROVE  f.millivolts[channel] \in Nat /\ f.milliamps[channel] \in Nat
    <3>1. PinCount - 1 - channel \in 0 .. PinCount - 1
      BY ChannelsAssumption DEF Channels
    <3> HIDE DEF buf
    <3>2. QED
      BY <2>2, <3>1 DEF DecodeFrame
  <2> HIDE DEF f, buf
  <2>4. (\A pin \in Pins : InRange(Pin(buf, pin))) <=> FramePlausible(f)
    <3>1. \A pin \in Pins : pin - 1 \in Channels
      BY ChannelsAssumption DEF Pins, Channels
    <3>2. ASSUME NEW pin \in Pins
          PROVE  InRange(Pin(buf, pin)) <=>
                    /\ f.millivolts[pin - 1] >= MvMin
                    /\ f.millivolts[pin - 1] <= MvMax
                    /\ f.milliamps[pin - 1] <= MaMax
      <4>1. f.millivolts[pin - 1] \in Nat /\ f.milliamps[pin - 1] \in Nat
        BY <2>3, <3>1
      <4>2. /\ Pin(buf, pin).mv = f.millivolts[pin - 1]
            /\ Pin(buf, pin).ma = f.milliamps[pin - 1]
        BY <2>1
      <4>3. MvMin \in Nat /\ MvMax \in Nat /\ MaMax \in Nat
        BY ChannelsAssumption
      <4>4. QED
        BY <4>1, <4>2, <4>3, OracleSameRanges DEF InRange, OracleSameRanges
    <3>3. FramePlausible(f) => \A pin \in Pins : InRange(Pin(buf, pin))
      BY <3>1, <3>2 DEF FramePlausible
    <3>4. ASSUME \A pin \in Pins : InRange(Pin(buf, pin)), NEW channel \in Channels
          PROVE  /\ f.millivolts[channel] >= MvMin
                 /\ f.millivolts[channel] <= MvMax
                 /\ f.milliamps[channel] <= MaMax
      <4> DEFINE pin == channel + 1
      <4>0. channel \in Channels
        BY <3>4
      <4>1. pin \in Pins /\ pin - 1 = channel
        BY <4>0, ChannelsAssumption DEF Pins, Channels
      <4>2. InRange(Pin(buf, pin))
        BY <3>4, <4>1
      <4> HIDE DEF pin
      <4>3. QED
        BY <3>2, <4>1, <4>2
    <3>5. QED
      BY <3>3, <3>4 DEF FramePlausible
  <2>5. QED
    BY <2>1, <2>4 DEF OracleReads, Published, f, buf
<1>2. SampleInv => OracleAgrees
  BY <1>1 DEF SampleInv, OracleAgrees
<1>3. QED
  BY SampleInit, SampleStep, <1>2, PTL DEF Spec
=============================================================================
