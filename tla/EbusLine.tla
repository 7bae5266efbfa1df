------------------------------ MODULE EbusLine ------------------------------
(***************************************************************************)
(* A passive listener of the eBUS (crate ebus-core): the bytes of the bus, *)
(* some lost or garbled on the way, through Framer::feed, reduce and parse *)
(* to telegrams. Masters and slaves on the bus are the environment.        *)
(***************************************************************************)
EXTENDS Naturals, Sequences, SequencesExt, Bitwise

CONSTANTS
    Telegrams,  \* what is sent: [qq, zz, pb, sb, db, sdb]
    Courses,    \* how the exchange may go, of the courses below
    Noise,      \* what a byte may be garbled to
    MaxFrame,   \* MAX_FRAME
    MaxData,    \* MAX_DATA_BYTES
    MaxSent, MaxFaults  \* bounds on telegrams, and on bytes lost or garbled

Byte == 0..255

ASSUME EbusLineAssumption ==
    /\ \A t \in Telegrams :
          /\ {t.qq, t.zz, t.pb, t.sb} \subseteq Byte
          /\ \A d \in {t.db, t.sdb} : d \in Seq(Byte) /\ Len(d) <= MaxData
    /\ Courses \subseteq {"acked", "refused", "unanswered", "repeated"}
    /\ Noise \subseteq Byte
    /\ MaxFrame \in Nat \ {0} /\ MaxData \in 1..254
    /\ MaxSent \in Nat /\ MaxFaults \in Nat

SYN == 170
ESC == 169
ESC_SYN == 1
ESC_ESC == 0
ACK == 0
NAK == 255
BROADCAST == 254

VARIABLES
    line,       \* what the bus still carries of the telegram being sent
    buf,        \* Framer::buf, up to len
    got,        \* the telegrams parse_wire returned
    transit,    \* history: the telegrams sent since the last SYN that arrived
    last,       \* history: the telegram on the line, and how its exchange goes
    whole,      \* history: every byte since the SYN before it arrived
    sent, faults

vars == <<line, buf, got, transit, last, whole, sent, faults>>

-----------------------------------------------------------------------------
(* address.rs, sequence.rs and crc.rs.                                     *)

Nibble(n) == ((n + 1) % 16) & n = 0
is_master(byte) == Nibble(byte \div 16) /\ Nibble(byte % 16)
is_target(byte) == byte \notin {SYN, ESC}

Extend(reduced) ==
    FlattenSeq([i \in DOMAIN reduced |->
        CASE reduced[i] = SYN -> <<ESC, ESC_SYN>>
          [] reduced[i] = ESC -> <<ESC, ESC_ESC>>
          [] OTHER -> <<reduced[i]>>])

\* Mutant: an escaped ESC is not undone.
ReduceSynOnly(extended) ==
    LET Step(acc, b) ==
            IF b = ESC_SYN /\ acc # <<>> /\ Last(acc) = ESC THEN Append(Front(acc), SYN)
            ELSE Append(acc, b)
    IN  FoldLeft(Step, <<>>, extended)

\* An escape ends at its second byte; one with no or another second byte stays as it is.
Reduce(extended) ==
    LET Step(acc, b) ==
            IF ~acc.esc
            THEN IF b = ESC THEN [acc EXCEPT !.esc = TRUE]
                            ELSE [acc EXCEPT !.out = Append(@, b)]
            ELSE [esc |-> FALSE, out |-> acc.out \o
                    CASE b = ESC_SYN -> <<SYN>> [] b = ESC_ESC -> <<ESC>> [] OTHER -> <<ESC, b>>]
        end == FoldLeft(Step, [esc |-> FALSE, out |-> <<>>], extended)
    IN  IF end.esc THEN Append(end.out, ESC) ELSE end.out

\* The table of the polynomial 0x9B: eight shifts of the index.
CrcTable ==
    LET Shift(c) == IF c >= 128 THEN ((2 * c) % 256) ^^ 155 ELSE 2 * c
    IN  [i \in Byte |-> FoldLeft(LAMBDA c, k : Shift(c), i, [k \in 1..8 |-> k])]

Crc(reduced) == FoldLeft(LAMBDA crc, b : CrcTable[crc] ^^ b, 0, Extend(reduced))

-----------------------------------------------------------------------------
(* telegram.rs.                                                            *)

Failed(error) == [error |-> error]

\* One part and its CRC; s begins at its length byte, which is preceded by head.
Part(head, s, badCrc) ==
    LET nn == s[1] IN
    CASE s = <<>> -> Failed("TooShort")
      [] s # <<>> /\ nn > MaxData -> Failed("DataLengthExceeded")
      [] s # <<>> /\ nn <= MaxData /\ Len(s) < nn + 2 -> Failed("TooShort")
      [] OTHER -> IF Crc(head \o SubSeq(s, 1, nn + 1)) # s[nn + 2] THEN Failed(badCrc)
                  ELSE [error |-> "", data |-> SubSeq(s, 2, nn + 1),
                        rest |-> SubSeq(s, nn + 3, Len(s))]

\* Mutant: the slave's part is taken as it comes.
SlavePartUnchecked(s) ==
    IF s = <<>> \/ Len(s) < s[1] + 1 THEN Failed("TooShort")
    ELSE [error |-> "", data |-> SubSeq(s, 2, s[1] + 1), rest |-> <<>>]

SlavePart(s) == Part(<<>>, s, "SlaveCrcInvalid")

\* What follows the master's part, by the type of the target. Anything but a NAK passes
\* for an ACK, and a NAK ends it: the repetition that follows is not parsed.
Answer(zz, s) ==
    CASE zz = BROADCAST -> [error |-> "", data |-> <<>>]
      [] zz # BROADCAST /\ is_master(zz) ->
            IF s = <<>> THEN Failed("MasterAckMissing")
            ELSE IF s[1] = NAK THEN Failed("MasterNakFinal") ELSE [error |-> "", data |-> <<>>]
      [] OTHER ->
            IF s = <<>> THEN Failed("SlaveAckMissing")
            ELSE IF s[1] = NAK THEN Failed("SlaveNakFinal") ELSE SlavePart(Tail(s))

Telegram(s, db, sdb) ==
    [qq |-> s[1], zz |-> s[2], pb |-> s[3], sb |-> s[4], db |-> db, sdb |-> sdb]

Parse(s) ==
    IF Len(s) < 6 THEN Failed("TooShort")
    ELSE IF ~is_master(s[1]) THEN Failed("InvalidSource")
    ELSE IF ~is_target(s[2]) THEN Failed("InvalidTarget")
    ELSE LET master == Part(SubSeq(s, 1, 4), SubSeq(s, 5, Len(s)), "MasterCrcInvalid")
             answer == Answer(s[2], master.rest)
         IN  CASE master.error # "" -> master
               [] master.error = "" /\ answer.error # "" -> answer
               [] OTHER -> [error |-> "", telegram |-> Telegram(s, master.data, answer.data)]

ParseWire(bytes) == Parse(Reduce(bytes))

-----------------------------------------------------------------------------
(* The bus: a telegram follows the SYN of the one before and ends in a SYN. *)

WithCrc(s) == Append(s, Crc(s))
MasterPart(t) == WithCrc(<<t.qq, t.zz, t.pb, t.sb, Len(t.db)>> \o t.db)
Response(t) == WithCrc(<<Len(t.sdb)>> \o t.sdb)

\* Acknowledged, with the slave's answer if it is a slave.
Acked(t) ==
    CASE t.zz = BROADCAST -> MasterPart(t)
      [] t.zz # BROADCAST /\ is_master(t.zz) -> MasterPart(t) \o <<ACK>>
      [] OTHER -> MasterPart(t) \o <<ACK>> \o Response(t) \o <<ACK>>

\* Refused once and sent again; unanswered; or the answer refused once and repeated.
Exchange(t, course) ==
    CASE course = "acked" -> Acked(t)
      [] course = "refused" -> MasterPart(t) \o <<NAK>> \o Acked(t)
      [] course = "unanswered" -> MasterPart(t)
      [] course = "repeated" ->
            MasterPart(t) \o <<ACK>> \o Response(t) \o <<NAK>> \o Response(t) \o <<ACK>>

Possible(t, course) ==
    /\ course \in {"refused", "unanswered"} => t.zz # BROADCAST
    /\ course = "repeated" => t.zz # BROADCAST /\ ~is_master(t.zz)

Send(t, course) ==
    /\ line = <<>> /\ sent < MaxSent /\ Possible(t, course)
    /\ line' = Append(Extend(Exchange(t, course)), SYN)
    /\ last' = [telegram |-> t, course |-> course]
    /\ transit' = Append(transit, t)
    /\ sent' = sent + 1
    /\ UNCHANGED <<buf, got, whole, faults>>

\* One byte at most between two SYNs that arrive: a CRC of eight bits promises no more.
Faulty == whole /\ faults < MaxFaults
Fault == whole' = FALSE /\ faults' = faults + 1

Lose ==
    /\ line # <<>> /\ Faulty
    /\ line' = Tail(line)
    /\ Fault
    /\ UNCHANGED <<buf, got, transit, last, sent>>

-----------------------------------------------------------------------------
(* framer.rs, and its caller.                                              *)

Filled(b) == IF Len(buf) < MaxFrame THEN Append(buf, b) ELSE buf

\* Consecutive SYNs give no frame; what overflows the buffer is dropped.
Feed(b) ==
    IF b = SYN
    THEN /\ buf' = <<>>
         /\ LET parsed == ParseWire(buf)
            IN  got' = IF buf = <<>> \/ parsed.error # "" THEN got
                       ELSE Append(got, parsed.telegram)
    ELSE buf' = Filled(b) /\ got' = got

Arrive(b) ==
    /\ line' = Tail(line)
    /\ Feed(b)
    \* A SYN that is not the telegram's own leaves the rest of it to come, heard or not.
    /\ transit' = IF b # SYN THEN transit
                  ELSE IF Len(line) = 1 \/ (Len(transit) = 1 /\ got' # got) THEN <<>>
                  ELSE <<last.telegram>>
    /\ UNCHANGED <<last, sent>>

Receive ==
    /\ line # <<>> /\ Arrive(Head(line))
    /\ whole' = (whole \/ Head(line) = SYN)
    /\ UNCHANGED faults

Garble(b) ==
    /\ line # <<>> /\ Faulty /\ b # Head(line)
    /\ Arrive(b)
    /\ Fault

-----------------------------------------------------------------------------
Init ==
    /\ line = <<>> /\ buf = <<>> /\ got = <<>>
    /\ transit = <<>> /\ last = [course |-> "none"] /\ whole = TRUE
    /\ sent = 0 /\ faults = 0

Next ==
    \/ \E t \in Telegrams, course \in Courses : Send(t, course)
    \/ Receive
    \/ Lose
    \/ \E b \in Noise : Garble(b)

Spec == Init /\ [][Next]_vars

-----------------------------------------------------------------------------
(* framer.rs:77 leaves what overflowed, and telegram.rs all that follows a parsed    *)
(* telegram, to the CRCs. Through lost SYNs, lost and garbled bytes, overflow and    *)
(* repetitions the listener hears what was sent, in order and at most once.          *)
Channel == INSTANCE TelegramChannel WITH heard <- got

HeardAsSent == Channel!Spec

(* A telegram that was answered at the first attempt and whose bytes all arrived     *)
(* between two SYNs is heard at the second of them, whatever was lost or left        *)
(* unfinished before (framer.rs, feed; sequence.rs, reduce undoes extend).           *)
Audible == whole /\ last.course \in {"acked", "repeated"} /\ line = <<SYN>>

WholeIsHeard ==
    [][Audible /\ line' = <<>> /\ whole' => got' = Append(got, last.telegram)]_vars
=============================================================================
