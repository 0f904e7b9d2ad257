--------------------------- MODULE ParameterSets ---------------------------
(***************************************************************************)
(* NAL units on their way from the encoder to their fields: written bit by *)
(* bit, made into bytes and a byte stream, received, perhaps cut short,    *)
(* parsed, stripped of emulation prevention and read field by field.       *)
(* Instead of fields a stream may have one unit of SEI messages, or a      *)
(* sequence parameter set, of which the first elements come through; how   *)
(* elements are made of bits is shown with the fields.                     *)
(*                                                                         *)
(* The writer is the standard's, as x264 follows it.  Bytes have ByteBits  *)
(* bits, 8 in the code; the values 0, 1 and 3 are special in any size.     *)
(***************************************************************************)
EXTENDS ByteStream, BitReader

CONSTANTS
    ByteBits,
    Header,       \* the first byte of a NAL unit, never 0
    MaxFields,    \* bound: fields written
    MaxUnits,     \* bound: NAL units
    SeiMessages,  \* messages an encoder may send, each [type, payload]
    MaxMessages,  \* bound: messages of a unit
    Headers       \* sequence parameter sets an encoder may send (see SpsSyntax)

ASSUME ParameterSetsAssumption ==
    /\ ByteBits \in Nat /\ ByteBits >= 2
    /\ Header \in 1 .. 2 ^ ByteBits - 1
    /\ MaxFields \in Nat /\ MaxUnits \in Nat /\ MaxMessages \in Nat

Sps == INSTANCE SpsSyntax

VARIABLES
    \* the writer: the fields of each unit, the last one still open
    written,
    \* the messages of the SEI unit
    messages,
    \* the parameter set, if one is sent, and how many of its elements arrive
    header, cut,
    \* the receiver: the bytes received, the units parsed
    received, units,
    \* the reader: the unit it reads, what it has read of it
    reading, bit_offset, values, failed

reader == <<reading, bit_offset, values, failed>>
vars   == <<written, messages, header, cut, received, units, reader>>

NotReceived == <<Header>>

-----------------------------------------------------------------------------
(* The writer *)

Binary(value, count) == [i \in 1 .. count |-> (value \div 2 ^ (count - i)) % 2]

Zeros(n) == [i \in 1 .. n |-> 0]

\* The number of bits of a positive number.
Width(n) == CHOOSE w \in 1 .. WordBits : 2 ^ (w - 1) <= n /\ n < 2 ^ w

Ue(value) == Zeros(Width(value + 1) - 1) \o Binary(value + 1, Width(value + 1))

Code(value) == IF value > 0 THEN 2 * value - 1 ELSE -2 * value

Encoded(field) ==
    CASE field.kind = "u"  -> Binary(field.value, WordBits)
      [] field.kind = "ue" -> Ue(field.value)
      [] field.kind = "se" -> Ue(Code(field.value))

\* Every value that a word, or a signed word, can hold and the codes can express.
Fields ==
    [kind : {"u"}, value : 0 .. Word - 1]
    \cup [kind : {"ue"}, value : 0 .. Word - 2]
    \cup [kind : {"se"}, value : (1 - Word \div 2) .. (Word \div 2 - 1)]

Stream(fields) == FlattenSeq([i \in DOMAIN fields |-> Encoded(fields[i])])

\* A payload ends in a one and as many zeros as fill its last byte.
Payload(fields) ==
    LET bits   == Stream(fields) \o <<1>>
        filled == bits \o Zeros((ByteBits - (Len(bits) % ByteBits)) % ByteBits)
    IN [i \in 1 .. Len(filled) \div ByteBits |->
           FoldLeft(LAMBDA n, bit : 2 * n + bit, 0,
                    SubSeq(filled, (i - 1) * ByteBits + 1, i * ByteBits))]

\* A 3 before any byte up to 3 that follows two zeros.
Nal(payload) ==
    LET Write(state, byte) ==
            LET escaped == state.zeros = 2 /\ byte <= 3
            IN [zeros |-> IF byte # 0 THEN 0 ELSE IF escaped THEN 1 ELSE state.zeros + 1,
                out   |-> state.out \o (IF escaped THEN <<3, byte>> ELSE <<byte>>)]
    IN <<Header>> \o FoldLeft(Write, [zeros |-> 0, out |-> <<>>], payload).out

\* Types and sizes are written with as many full bytes as fit before the rest.
Full == 2 ^ ByteBits - 1

SeiNumber(n) == [i \in 1 .. n \div Full |-> Full] \o <<n % Full>>

\* The last byte of a payload that is already made of whole bytes.
Stop == 2 ^ (ByteBits - 1)

SeiPayload ==
    FlattenSeq([i \in DOMAIN messages |->
                   SeiNumber(messages[i].type) \o SeiNumber(Len(messages[i].payload))
                   \o messages[i].payload])
    \o <<Stop>>

Payloads ==
    [i \in DOMAIN written |-> Payload(written[i])] \o (IF messages = <<>> THEN <<>> ELSE <<SeiPayload>>)

Nals == [i \in DOMAIN Payloads |-> Nal(Payloads[i])]

Init ==
    /\ written = <<>>
    /\ messages = <<>>
    /\ \/ header = {} /\ cut = 0
       \/ \E h \in Headers : header = {h} /\ cut \in 0 .. Len(Sps!SpsSyntaxOf(h))
    /\ received = NotReceived /\ units = <<>>
    /\ reading = 0 /\ bit_offset = 0 /\ values = <<>> /\ failed = FALSE

FieldCount == FoldLeft(LAMBDA n, fields : n + Len(fields), 0, written)

BeginUnit ==
    /\ received = NotReceived /\ messages = <<>> /\ header = {}
    /\ Len(written) < MaxUnits
    /\ written' = Append(written, <<>>)
    /\ UNCHANGED <<messages, header, cut, received, units, reader>>

WriteField ==
    /\ received = NotReceived
    /\ written # <<>> /\ FieldCount < MaxFields
    /\ \E field \in Fields : written' = [written EXCEPT ![Len(written)] = Append(@, field)]
    /\ UNCHANGED <<messages, header, cut, received, units, reader>>

WriteMessage ==
    /\ received = NotReceived /\ written = <<>> /\ header = {}
    /\ Len(messages) < MaxMessages
    /\ \E message \in SeiMessages : messages' = Append(messages, message)
    /\ UNCHANGED <<written, header, cut, received, units, reader>>

-----------------------------------------------------------------------------
(* The receiver *)

\* The whole stream, or a beginning of it.
Receive ==
    /\ received = NotReceived /\ header = {}
    /\ LET stream == BuildAnnexB(Nals)
       IN \E n \in 0 .. Len(stream) : received' = SubSeq(stream, 1, n)
    /\ units' = ParseAnnexB(received')
    /\ UNCHANGED <<written, messages, header, cut, reader>>

Bits(bytes) == FlattenSeq([i \in DOMAIN bytes |-> Binary(bytes[i], ByteBits)])

Buffer == Bits(Rbsp(units[reading]))

BeginReading ==
    /\ received # NotReceived /\ messages = <<>>
    /\ reading < Len(units)
    /\ reading' = reading + 1
    /\ bit_offset' = 0 /\ values' = <<>> /\ failed' = FALSE
    /\ UNCHANGED <<written, messages, header, cut, received, units>>

Field == written[reading][Len(values) + 1]

Take(result) ==
    /\ failed' = ~result.ok
    /\ IF result.ok
       THEN bit_offset' = result.offset /\ values' = Append(values, result.value)
       ELSE UNCHANGED <<bit_offset, values>>

ReadField ==
    /\ reading > 0 /\ ~failed /\ Len(values) < Len(written[reading])
    /\ \/ Field.kind = "u" /\ Take(ReadBits(Buffer, bit_offset, WordBits))
       \/ Field.kind = "ue" /\ Take(ReadUe(Buffer, bit_offset))
       \/ Field.kind = "se" /\ Take(ReadSe(Buffer, bit_offset))
    /\ UNCHANGED <<written, messages, header, cut, received, units, reading>>

\* Faulty: the full bytes are skipped, not counted.
ReadSeiNumber_LastByte(bytes, offset) ==
    LET rest == {i \in offset + 1 .. Len(bytes) : bytes[i] # Full}
    IN IF rest = {} THEN Failure
       ELSE LET last == CHOOSE i \in rest : \A j \in rest : i <= j IN Result(bytes[last], last)

\* A number of an SEI message from the offset on, in full bytes and one more.
ReadSeiNumber(bytes, offset) ==
    LET rest == {i \in offset + 1 .. Len(bytes) : bytes[i] # Full}
    IN IF rest = {} THEN Failure
       ELSE LET last == CHOOSE i \in rest : \A j \in rest : i <= j
            IN Result((last - offset - 1) * Full + bytes[last], last)

\* parse_h264_sei: the messages, or a failure.  A type beyond 32 bits, which
\* takes 16 megabytes of full bytes, is a failure too and left out.
ParseSei(bytes) ==
    LET from[offset \in 0 .. Len(bytes)] ==
            LET type == ReadSeiNumber(bytes, offset)
                size == ReadSeiNumber(bytes, type.offset)
                end  == size.offset + size.value
                rest == from[end]
            IN CASE offset = Len(bytes) -> Result(<<>>, offset)
                 [] offset = Len(bytes) - 1 /\ bytes[offset + 1] = Stop -> Result(<<>>, offset)
                 [] OTHER ->
                      IF ~type.ok \/ ~size.ok \/ end > Len(bytes) THEN Failure
                      ELSE IF ~rest.ok THEN Failure
                      ELSE Result(<<[type    |-> type.value,
                                     payload |-> SubSeq(bytes, size.offset + 1, end)]>> \o rest.value,
                                  rest.offset)
    IN from[0]

Next ==
    \/ BeginUnit \/ WriteField \/ WriteMessage
    \/ Receive \/ BeginReading \/ ReadField

Spec == Init /\ [][Next]_vars

-----------------------------------------------------------------------------
\* The units parsed are those written, but for the end of the last one when the
\* stream was cut: no field produces a start code, no unit is glued to the next
\* one, and contents come back without the bytes that were put in.
WrittenUnitsSurvive ==
    received # NotReceived =>
       /\ Len(units) <= Len(Nals)
       /\ \A i \in DOMAIN units :
             IF i < Len(units) \/ received = BuildAnnexB(Nals)
             THEN units[i] = Nals[i] /\ Rbsp(units[i]) = Payloads[i]
             ELSE IsPrefix(Rbsp(units[i]), Payloads[i])
       /\ received = BuildAnnexB(Nals) => Len(units) = Len(Nals)

\* The bytes of the payloads without any protection, which is any bytes.
Unprotected == FlattenSeq([i \in DOMAIN Payloads |-> <<Header>> \o Payloads[i]])

Clean(parsed) ==
    /\ \A i \in DOMAIN parsed :
          /\ parsed[i] # <<>> /\ Last(parsed[i]) # 0
          /\ StartCodes(parsed[i], 1) = {}
    /\ ParseAnnexB(BuildAnnexB(parsed)) = parsed

\* Of a cut stream, or of bytes without structure, the units parsed are not
\* empty, have no start code in them and no zeros after them, which the decoder
\* would take for part of the next start code; built again they are parsed to
\* the same units.
ParsedUnitsAreClean ==
    IF received = NotReceived THEN Clean(ParseAnnexB(<<0, 0, 1>> \o Unprotected)) ELSE Clean(units)

\* What Annex B promises of any stream: the units written survive it, and the
\* units parsed from whatever arrives are clean.
UnitsAreKept == WrittenUnitsSurvive /\ ParsedUnitsAreClean

\* What is read is what was written, field by field, up to the largest value of
\* a word; each field ends where the next one begins; reading fails only when
\* the buffer ends within the field, and never looks beyond its end.
FieldsAreRead ==
    reading > 0 =>
       LET Written(n) == Len(Stream(SubSeq(written[reading], 1, n)))
       IN /\ \A i \in DOMAIN values : values[i] = written[reading][i].value
          /\ bit_offset = Written(Len(values)) /\ bit_offset <= Len(Buffer)
          /\ failed => Written(Len(values) + 1) > Len(Buffer)

\* The messages of an SEI unit come back as they were written, whatever their
\* types, sizes and contents; of a cut one the first messages, whole, or none.
MessagesAreRead ==
    (messages # <<>> /\ units # <<>>) =>
       LET read == ParseSei(Rbsp(units[1]))
       IN /\ read.ok => IsPrefix(read.value, messages)
          /\ received = BuildAnnexB(Nals) => read.ok /\ read.value = messages

\* The contents of a unit, fields of a parameter set or messages of an SEI, are
\* read as they were written.
ReadsWhatWasWritten == FieldsAreRead /\ MessagesAreRead

\* A parameter set is read if all of it has arrived and what it says can be; it
\* is read as it was written, through every optional part before an element,
\* and conforms exactly if what was written does.
HeadersAreRead ==
    \A h \in header :
       LET elements == Sps!SpsSyntaxOf(h)
           parsed   == Sps!ParseSps(SubSeq(elements, 1, cut))
       IN /\ parsed.ok <=> cut = Len(elements) /\ Sps!Legal(h)
          /\ parsed.ok => /\ Sps!Summary(parsed.sps) = Sps!Written(h)
                          /\ Sps!ConformingVideo(parsed.sps) <=> Sps!Conforms(h)
=============================================================================
