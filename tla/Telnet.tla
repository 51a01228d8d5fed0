------------------------------- MODULE Telnet -------------------------------
(***************************************************************************)
(* The byte streams of one connection: telnet commands, the out-of-band    *)
(* protocols carried by subnegotiations (GMCP, MSSP, MSDP, MSP, ZMP, NAWS, *)
(* TTYPE) and the websocket transport that may lie below.  Two sides:      *)
(*                                                                         *)
(*   - who sends, a client or another driver: one action writes one byte   *)
(*     of a text, escaped, or one of the marks around texts;               *)
(*   - class Connection and Server::handleConnection(), which poll: one    *)
(*     action is one turn of one of their loops, over frames, bytes and    *)
(*     lines, so that a read may end between any two bytes.                *)
(*                                                                         *)
(* A text is a sequence of bytes.  Which object is bound to the connection *)
(* belongs to Connections; here an object is always bound, and what it is  *)
(* told is kept by the kind of the call: the order of different kinds in   *)
(* one poll is left out.                                                   *)
(***************************************************************************)
EXTENDS Naturals, Sequences, SequencesExt

CONSTANTS MaskXor(_, _),   \* of two bytes
          Contents,    \* bytes of the texts that are sent
          Options,     \* options that are negotiated
          Masks,       \* masking keys of websocket frames, and <<>>
          Requests,    \* upgrade requests of websocket clients
          Statistics,  \* of MSSP: the pairs NAME, PLAYERS, UPTIME, CODEBASE
          Rooms        \* bytes the socket takes before a write fails

Byte == 0..255

\* Telnet commands.
Iac == 255
Dont == 254
Do == 253
Wont == 252
Will == 251
Sb == 250
Se == 240

\* Telnet options.
Echo == 1
Ttype == 24
Naws == 31
Msdp == 69
Mssp == 70
Msp == 90
Mxp == 91
Zmp == 93
Gmcp == 201

\* Qualifiers of TTYPE, and the marks in front of a name and of a value in
\* MSSP and MSDP.
TelQualIs == 0
TelQualSend == 1
VarMark == 1
ValMark == 2

CR == 13
LF == 10
EndOfRequest == <<CR, LF, CR, LF>>

Find(what, text) ==
    {i \in 1..(Len(text) - Len(what) + 1) : SubSeq(text, i, i + Len(what) - 1) = what}

\* A request ends with its first empty line.
ASSUME StreamAssumption ==
    /\ \A a, b \in Byte : MaskXor(a, b) \in Byte /\ MaskXor(MaskXor(a, b), b) = a
    /\ Contents \subseteq Byte
    /\ Options \subseteq Byte
    /\ \A m \in Masks : m = <<>> \/ m \in [1..4 -> Byte]
    /\ \A r \in Requests : r \in Seq(Byte) /\ Find(EndOfRequest, r) = {Len(r) - 3}
    /\ Rooms \subseteq Nat

\* Options a client may turn on with WILL or DO, and the calls that tell of it.
Switched == {Gmcp, Msdp, Mxp, Msp, Zmp}
EnabledBy == [gmcp_enable |-> Gmcp, msdp_enable |-> Msdp, msp_enable |-> Msp]

\* The calls to the mudlib: each message of some kinds, and of others only the
\* newest one, behind a flag.
Queued == {"line", "gmcp", "msdp", "zmp_command"}
Flagged == {"window_size", "terminal_type"} \cup DOMAIN EnabledBy
Kinds == Queued \cup Flagged

VARIABLES sent,             \* telnet bytes sent, without frames
          typed,            \* what of a line has been sent
          saying,           \* the subnegotiation that is being sent
          messages,         \* history: what was sent, by kind
          framed,           \* the bytes of the websocket frames
          frames            \* history: the frames

VARIABLES useWebSocket, request,
          wsHandshakeDone, wsHttpBuffer, wsFrameBuffer, telnetOffered,
          telnetState, sbBuffer, inputBuffer,
          incoming,         \* incomingGmcp_ ..., the flags, and the lines
          msspNegotiated,
          enabled           \* gmcpEnabled_, msdpEnabled_, ...

VARIABLES wsPendingSend, echoSuppressed,
          written, room     \* bytes written, and how many more can be

VARIABLES step,             \* what the poll is doing
          rawChunk,         \* bytes read and not yet parsed
          arrived,          \* how many bytes were read
          closed,
          told              \* calls to the mudlib, by kind

sender == <<sent, typed, saying, messages, framed, frames>>
carrier == <<useWebSocket, request, wsHandshakeDone, wsHttpBuffer, wsFrameBuffer, telnetOffered>>
parser == <<telnetState, sbBuffer, inputBuffer, incoming, msspNegotiated, enabled>>
sending == <<wsPendingSend, echoSuppressed, written, room>>
polling == <<step, rawChunk, arrived, closed, told>>
streamVars == <<sender, carrier, parser, sending, polling>>

Silence == [kind |-> "none", parts |-> <<>>, text |-> <<>>]
Nothing == [k \in Kinds |-> <<>>]

Sender ==
    /\ sent = <<>> /\ typed = <<>> /\ saying = Silence /\ messages = Nothing
    /\ framed = <<>> /\ frames = <<>>

NewConnection ==
    /\ useWebSocket \in BOOLEAN /\ request \in Requests
    /\ wsHandshakeDone = FALSE /\ telnetOffered = FALSE
    /\ wsHttpBuffer = <<>> /\ wsFrameBuffer = <<>> /\ wsPendingSend = <<>>
    /\ telnetState = "Data" /\ sbBuffer = <<>> /\ inputBuffer = <<>>
    /\ incoming = Nothing /\ msspNegotiated = FALSE /\ enabled = {}
    /\ echoSuppressed = FALSE /\ closed = FALSE
    /\ written = <<>> /\ room \in Rooms
    /\ step = "idle" /\ rawChunk = <<>> /\ arrived = 0 /\ told = Nothing

StreamInit == Sender /\ NewConnection

-----------------------------------------------------------------------------
(* What is sent: lines with other commands and subnegotiations anywhere in *)
(* between.                                                                *)

Writes(bytes) == sent' = sent \o bytes

\* One turn of appendIacEscaped().
Escaped(b) == IF b = Iac THEN <<Iac, Iac>> ELSE <<b>>

AppendIacEscaped(data) == FlattenSeq([i \in DOMAIN data |-> Escaped(data[i])])

Subnegotiation(option, payload) == <<Iac, Sb, option>> \o payload \o <<Iac, Se>>

Type(b) ==
    /\ saying.kind = "none" /\ b # LF
    /\ typed' = Append(typed, b) /\ Writes(Escaped(b))
    /\ UNCHANGED <<saying, messages>>

\* The mark that ends a line is LF or CR LF.
EndLine(cr) ==
    /\ saying.kind = "none"
    /\ ~cr /\ typed # <<>> => Last(typed) # CR
    /\ messages' = [messages EXCEPT !["line"] = Append(@, typed)] /\ typed' = <<>>
    /\ Writes(IF cr THEN <<CR, LF>> ELSE <<LF>>)
    /\ UNCHANGED saying

Asks(k, verb, option) ==
    IF k \in DOMAIN EnabledBy /\ verb \in {Will, Do} /\ option = EnabledBy[k] THEN <<<<>>>> ELSE <<>>

Negotiate(verb, option) ==
    /\ saying.kind = "none"
    /\ messages' = [k \in Kinds |-> messages[k] \o Asks(k, verb, option)]
    /\ Writes(<<Iac, verb, option>>)
    /\ UNCHANGED <<typed, saying>>

\* A command without an option, GA or NOP say.
Command(c) ==
    /\ saying.kind = "none"
    /\ Writes(<<Iac, c>>)
    /\ UNCHANGED <<typed, saying, messages>>

\* How a subnegotiation of each kind begins; other ones mean nothing.
Opening == [gmcp |-> <<Gmcp>>, msdp |-> <<Msdp, VarMark>>, zmp_command |-> <<Zmp>>,
            window_size |-> <<Naws>>, terminal_type |-> <<Ttype, TelQualIs>>]
Meaningless == Byte \ {Gmcp, Msdp, Zmp, Naws, Ttype, Iac}

Opens(kind, bytes) ==
    /\ saying.kind = "none"
    /\ saying' = [Silence EXCEPT !.kind = kind]
    /\ Writes(<<Iac, Sb>> \o bytes)
    /\ UNCHANGED <<typed, messages>>

\* A byte of the text: an MSDP name holds no mark of a value, a ZMP field no NUL.
Put(b) ==
    /\ saying.kind # "none"
    /\ saying.kind = "msdp" /\ saying.parts = <<>> => b # ValMark
    /\ saying.kind = "zmp_command" => b # 0
    /\ saying' = [saying EXCEPT !.text = Append(@, b)] /\ Writes(Escaped(b))
    /\ UNCHANGED <<typed, messages>>

\* The end of the name of an MSDP variable, or of a ZMP field.
NextPart ==
    /\ saying.kind = "zmp_command" \/ (saying.kind = "msdp" /\ saying.parts = <<>>)
    /\ saying' = [saying EXCEPT !.parts = Append(@, saying.text), !.text = <<>>]
    /\ Writes(IF saying.kind = "msdp" THEN <<ValMark>> ELSE <<0>>)
    /\ UNCHANGED <<typed, messages>>

\* The message of kind k that is said with the end of the subnegotiation; a ZMP
\* command ends with the end of a field, a window has two sizes.
Said(k) ==
    LET text == saying.text
        parts == saying.parts
    IN  IF k # saying.kind THEN <<>>
        ELSE CASE k = "gmcp" /\ text # <<>> -> <<text>>
               [] k = "msdp" -> <<IF parts = <<>> THEN <<text, <<>>>> ELSE <<parts[1], text>>>>
               [] k = "zmp_command" /\ text = <<>> /\ parts # <<>> -> <<<<Head(parts), Tail(parts)>>>>
               [] k = "window_size" /\ Len(text) >= 4 ->
                      <<<<text[1] * 256 + text[2], text[3] * 256 + text[4]>>>>
               [] k = "terminal_type" -> <<text>>
               [] OTHER -> <<>>

Finish ==
    /\ saying.kind # "none"
    /\ messages' = [k \in Kinds |-> messages[k] \o Said(k)]
    /\ saying' = Silence /\ Writes(<<Iac, Se>>)
    /\ UNCHANGED typed

\* A command in the middle of a subnegotiation ends it and leaves it unsaid.
Abandon(c) ==
    /\ saying.kind # "none"
    /\ saying' = Silence /\ Writes(<<Iac, c>>)
    /\ UNCHANGED <<typed, messages>>

Speak ==
    /\ \/ \E b \in Contents : Type(b) \/ Put(b)
       \/ \E cr \in BOOLEAN : EndLine(cr)
       \/ \E verb \in {Will, Wont, Do, Dont}, option \in Options : Negotiate(verb, option)
       \/ \E c \in Byte \ {Iac, Will, Wont, Do, Dont, Sb} : Command(c)
       \/ \E kind \in DOMAIN Opening : Opens(kind, Opening[kind])
       \/ \E option \in Meaningless : Opens("other", <<option>>)
       \/ NextPart \/ Finish
       \/ \E c \in Byte \ {Iac, Se} : Abandon(c)
    /\ UNCHANGED <<framed, frames, carrier, parser, sending, polling>>

-----------------------------------------------------------------------------
(* Websocket frames.                                                       *)

Lengths(len, flag) ==
    IF len <= 125 THEN <<flag + len>>
    ELSE IF len <= 65535 THEN <<flag + 126, len \div 256, len % 256>>
    ELSE LET high == len \div 65536
             low == len % 65536
         IN  <<flag + 127, 0, 0, 0, 0, high \div 256, high % 256, low \div 256, low % 256>>

EncodeWsFrame(payload) == <<129>> \o Lengths(Len(payload), 0) \o payload

\* A client's frame may be masked; mask is <<>> if it is not.
MaskBytes(data, mask) ==
    [i \in DOMAIN data |-> IF mask = <<>> THEN data[i] ELSE MaskXor(data[i], mask[1 + ((i - 1) % 4)])]

ClientFrame(f) ==
    <<f.first>> \o Lengths(Len(f.payload), IF f.mask = <<>> THEN 0 ELSE 128) \o f.mask
                \o MaskBytes(f.payload, f.mask)

IsData(first) == first % 16 \in 0..2
Carried == IF frames = <<>> THEN 0 ELSE Last(frames).carried

\* bound: frames of less than 2 GiB.
LongestFrame == 2147483647

\* A client sends no frame before it has read the answer to its request.
Frame(first, mask, payload) ==
    LET f == [first |-> first, mask |-> mask, payload |-> payload,
              begins |-> Len(framed), carried |-> Carried + (IF IsData(first) THEN Len(payload) ELSE 0)]
    IN  /\ useWebSocket /\ wsHandshakeDone
        /\ Len(payload) <= LongestFrame
        /\ framed' = framed \o ClientFrame(f) /\ frames' = Append(frames, f)
        /\ UNCHANGED <<sent, typed, saying, messages, carrier, parser, sending, polling>>

\* A frame of the stream, or another one: close, ping, pong.
FrameStream(first, mask, n) ==
    /\ IsData(first)
    /\ Frame(first, mask, SubSeq(sent, Carried + 1, Carried + n))
FrameOther(first, mask, n) ==
    /\ ~IsData(first)
    /\ Frame(first, mask, SubSeq(sent, 1, n))

Transmit ==
    \E first \in Byte, mask \in Masks :
        \/ \E n \in 0..(Len(sent) - Carried) : FrameStream(first, mask, n)
        \/ \E n \in 0..Len(sent) : FrameOther(first, mask, n)

-----------------------------------------------------------------------------
(* What the driver writes.                                                 *)

\* The write loop: an error (a full socket buffer among them) ends it, and the
\* bytes that were left are dropped.
RawWrite(bytes) ==
    LET n == Min({Len(bytes), room})
    IN  written' = written \o SubSeq(bytes, 1, n) /\ room' = room - n

\* send(), once for each text of data.
Send(data) ==
    IF useWebSocket /\ ~wsHandshakeDone
    THEN wsPendingSend' = wsPendingSend \o FlattenSeq(data) /\ UNCHANGED <<written, room>>
    ELSE /\ RawWrite(FlattenSeq([i \in DOMAIN data |->
                         IF useWebSocket THEN EncodeWsFrame(data[i]) ELSE data[i]]))
         /\ UNCHANGED wsPendingSend

\* What the server offers a telnet client before anything else, and a websocket
\* client after its handshake.
TelnetOffers ==
    <<<<Iac, Do, Ttype>>, <<Iac, Do, Naws>>, <<Iac, Will, Gmcp>>, <<Iac, Will, Mssp>>,
      <<Iac, Will, Msdp>>, <<Iac, Will, Mxp>>, <<Iac, Will, Msp>>, <<Iac, Will, Zmp>>>>

OnNewConnection ==
    /\ ~useWebSocket /\ ~telnetOffered
    /\ telnetOffered' = TRUE /\ Send(TelnetOffers)
    /\ UNCHANGED <<useWebSocket, request, wsHandshakeDone, wsHttpBuffer, wsFrameBuffer,
                   sender, parser, echoSuppressed, polling>>

Writing(data) ==
    /\ step = "idle" /\ ~closed /\ (useWebSocket \/ telnetOffered)
    /\ Send(<<data>>)
    /\ UNCHANGED <<sender, carrier, parser, polling>>

SuppressEcho ==
    /\ ~echoSuppressed /\ echoSuppressed' = TRUE
    /\ Writing(<<Iac, Will, Echo>>)

RequestWindowSize == Writing(<<Iac, Do, Naws>>) /\ UNCHANGED echoSuppressed

StartRequestTerminalType == Writing(<<Iac, Do, Ttype>>) /\ UNCHANGED echoSuppressed

SendMspOob(payload) ==
    /\ Msp \in enabled
    /\ Writing(Subnegotiation(Msp, AppendIacEscaped(payload))) /\ UNCHANGED echoSuppressed

RequestTerminalType == Subnegotiation(Ttype, <<TelQualSend>>)

AppendMsspVar(name, value) ==
    <<VarMark>> \o AppendIacEscaped(name) \o <<ValMark>> \o AppendIacEscaped(value)

SendMssp ==
    Subnegotiation(Mssp, FlattenSeq([i \in DOMAIN Statistics |->
                                        AppendMsspVar(Statistics[i][1], Statistics[i][2])]))

-----------------------------------------------------------------------------
(* The start of a poll: everything that has arrived is read.               *)

Wire == IF useWebSocket THEN request \o framed ELSE sent
Unread(n) == SubSeq(Wire, arrived + 1, arrived + n)

\* hangup: the peer has closed, or the line has failed.
Reads(n, hangup) ==
    /\ step = "idle" /\ ~closed
    /\ n > 0 \/ hangup
    /\ arrived' = arrived + n
    /\ UNCHANGED <<sender, parser, useWebSocket, request, telnetOffered, echoSuppressed, told>>

\* The upgrade request is bytes too; KeyHeader stands for the letters of
\* "Sec-WebSocket-Key:" in any case.  Its value goes up to the line's end,
\* without leading blanks; it is empty when there is no such header.
KeyHeader == 75
HeaderValue(headers, name) ==
    LET at == Find(<<name>>, headers)
        from == Min({i \in (Min(at) + 1)..(Len(headers) + 1) :
                        i = Len(headers) + 1 \/ headers[i] \notin {32, 9}})
        ends(c) == {i \in from..Len(headers) : headers[i] = c}
        end == IF ends(CR) # {} THEN Min(ends(CR))
               ELSE IF ends(LF) # {} THEN Min(ends(LF)) ELSE Len(headers) + 1
    IN  IF at = {} THEN <<>> ELSE SubSeq(headers, from, end - 1)

\* SHA-1 and base64 of the key and the protocol's magic string: an injective
\* stand-in that only a peer who knows the key can predict.
Sha1Base64(key) == <<35>> \o Reverse(key)

SwitchingProtocols == 101
Response(key) == <<SwitchingProtocols>> \o Sha1Base64(key) \o EndOfRequest

RequestEnd(http) == Min(Find(EndOfRequest, http))
KeyOf(http) == HeaderValue(SubSeq(http, 1, RequestEnd(http) - 1), KeyHeader)
Asked(n) == wsHttpBuffer \o Unread(n)

ReadRequest(n, hangup) ==
    /\ useWebSocket /\ ~wsHandshakeDone /\ Find(EndOfRequest, Asked(n)) = {}
    /\ Reads(n, hangup)
    /\ wsHttpBuffer' = Asked(n) /\ closed' = hangup
    /\ UNCHANGED <<wsHandshakeDone, wsFrameBuffer, wsPendingSend, written, room, step, rawChunk>>

\* No key, or no room for the answer.
RefuseRequest(n, hangup) ==
    /\ useWebSocket /\ ~wsHandshakeDone /\ Find(EndOfRequest, Asked(n)) # {}
    /\ LET key == KeyOf(Asked(n))
       IN  \/ key = <<>> /\ UNCHANGED <<written, room>>
           \/ key # <<>> /\ Len(Response(key)) > room /\ RawWrite(Response(key))
    /\ Reads(n, hangup)
    /\ wsHttpBuffer' = <<>> /\ closed' = TRUE
    /\ UNCHANGED <<wsHandshakeDone, wsFrameBuffer, wsPendingSend, step, rawChunk>>

\* Bytes that came with the request go through the frames, but not through the
\* telnet parser.
CompleteWebSocketHandshake(n, hangup) ==
    LET http == Asked(n)
        key == KeyOf(http)
    IN  /\ useWebSocket /\ ~wsHandshakeDone /\ Find(EndOfRequest, http) # {}
        /\ key # <<>> /\ Len(Response(key)) <= room
        /\ Reads(n, hangup)
        /\ wsHttpBuffer' = <<>> /\ wsHandshakeDone' = TRUE /\ closed' = hangup
        /\ RawWrite(Response(key) \o (IF wsPendingSend = <<>> THEN <<>> ELSE EncodeWsFrame(wsPendingSend)))
        /\ wsPendingSend' = <<>>
        /\ wsFrameBuffer' = wsFrameBuffer \o SubSeq(http, RequestEnd(http) + 4, Len(http))
        /\ step' = "leftover" /\ UNCHANGED rawChunk

ReadFrames(n, hangup) ==
    /\ useWebSocket /\ wsHandshakeDone
    /\ Reads(n, hangup)
    /\ wsFrameBuffer' = wsFrameBuffer \o Unread(n) /\ closed' = hangup /\ step' = "frames"
    /\ UNCHANGED <<wsHandshakeDone, wsHttpBuffer, wsPendingSend, written, room, rawChunk>>

ReadTelnet(n, hangup) ==
    /\ ~useWebSocket /\ telnetOffered
    /\ Reads(n, hangup)
    /\ rawChunk' = Unread(n) /\ closed' = hangup /\ step' = "telnet"
    /\ UNCHANGED <<wsHandshakeDone, wsHttpBuffer, wsFrameBuffer, wsPendingSend, written, room>>

Arrive ==
    \E n \in 0..(Len(Wire) - arrived), hangup \in BOOLEAN :
        \/ ReadRequest(n, hangup) \/ RefuseRequest(n, hangup) \/ CompleteWebSocketHandshake(n, hangup)
        \/ ReadFrames(n, hangup) \/ ReadTelnet(n, hangup)

-----------------------------------------------------------------------------
(* decodeWsFrames().                                                       *)

\* The first frame of buf: behind its length bytes begin its mask and its data.
Length(buf) == buf[2] % 128
MaskAt(buf) == CASE Length(buf) = 126 -> 4 [] Length(buf) = 127 -> 10 [] OTHER -> 2
DataAt(buf) == MaskAt(buf) + (IF buf[2] >= 128 THEN 4 ELSE 0)
NumberAt(buf, i) == buf[i] * 256 + buf[i + 1]
FrameEnd(buf) ==
    DataAt(buf) +
        (CASE Length(buf) = 126 -> NumberAt(buf, 3)
           [] Length(buf) = 127 -> ((NumberAt(buf, 3) * 65536 + NumberAt(buf, 5)) * 65536
                                    + NumberAt(buf, 7)) * 65536 + NumberAt(buf, 9)
           [] OTHER -> Length(buf))

\* All of it is there.
Complete(buf) == Len(buf) >= 2 /\ Len(buf) >= MaskAt(buf) /\ Len(buf) >= FrameEnd(buf)

FirstData(buf) ==
    MaskBytes(SubSeq(buf, DataAt(buf) + 1, FrameEnd(buf)), SubSeq(buf, MaskAt(buf) + 1, DataAt(buf)))
Remaining(buf) == SubSeq(buf, FrameEnd(buf) + 1, Len(buf))

Pong(data) == IF Len(data) <= 125 THEN <<138, Len(data)>> \o data ELSE <<138, 0>>

TakesFrame ==
    /\ step \in {"frames", "leftover"} /\ Complete(wsFrameBuffer)
    /\ wsFrameBuffer' = Remaining(wsFrameBuffer)
    /\ UNCHANGED <<sender, useWebSocket, request, wsHandshakeDone, wsHttpBuffer, telnetOffered,
                   telnetState, sbBuffer, incoming, msspNegotiated, enabled,
                   wsPendingSend, echoSuppressed, arrived, told>>

\* Where the frames end, the bytes they carried go to the parser.
FramesEnd ==
    /\ step' = "telnet"
    /\ IF step = "leftover" THEN inputBuffer' = inputBuffer \o rawChunk /\ rawChunk' = <<>>
       ELSE UNCHANGED <<inputBuffer, rawChunk>>

TakeData ==
    /\ TakesFrame
    /\ IsData(wsFrameBuffer[1])
    /\ rawChunk' = rawChunk \o FirstData(wsFrameBuffer)
    /\ UNCHANGED <<step, inputBuffer, closed, written, room>>

TakePing ==
    /\ TakesFrame
    /\ wsFrameBuffer[1] % 16 = 9
    /\ RawWrite(Pong(FirstData(wsFrameBuffer)))
    /\ UNCHANGED <<step, inputBuffer, rawChunk, closed>>

TakeClose ==
    /\ TakesFrame
    /\ wsFrameBuffer[1] % 16 = 8
    /\ closed' = TRUE /\ FramesEnd
    /\ UNCHANGED <<written, room>>

TakeIgnored ==
    /\ TakesFrame
    /\ wsFrameBuffer[1] % 16 \notin {0, 1, 2, 8, 9}
    /\ UNCHANGED <<step, inputBuffer, rawChunk, closed, written, room>>

NoFrame ==
    /\ step \in {"frames", "leftover"} /\ ~Complete(wsFrameBuffer)
    /\ FramesEnd
    /\ UNCHANGED <<sender, carrier, telnetState, sbBuffer, incoming, msspNegotiated, enabled,
                   sending, arrived, closed, told>>

DecodeWsFrames == TakeData \/ TakePing \/ TakeClose \/ TakeIgnored \/ NoFrame

-----------------------------------------------------------------------------
(* processTelnetBytes().                                                   *)

\* Messages of the kinds, new ones after those of the same poll.
Receive(new) ==
    incoming' = [k \in Kinds |->
                    IF k \in Flagged /\ new[k] # <<>> THEN new[k] ELSE incoming[k] \o new[k]]

TakesByte(state) ==
    /\ step = "telnet" /\ rawChunk # <<>> /\ telnetState \in state
    /\ rawChunk' = Tail(rawChunk)
    /\ UNCHANGED <<sender, carrier, echoSuppressed, step, arrived, closed, told>>

DataByte(b) ==
    /\ TakesByte({"Data"})
    /\ IF b = Iac THEN telnetState' = "Iac" /\ UNCHANGED inputBuffer
       ELSE inputBuffer' = Append(inputBuffer, b) /\ UNCHANGED telnetState
    /\ UNCHANGED <<sbBuffer, incoming, msspNegotiated, enabled, wsPendingSend, written, room>>

StateAfterIac(b) ==
    CASE b = Will -> "Will" [] b = Wont -> "Wont" [] b = Do -> "Do" [] b = Dont -> "Dont"
      [] b = Sb -> "Sb" [] OTHER -> "Data"

\* Mutant of SbBegins: what is left of a subnegotiation stays in front of the next one.
SbGoesOn(b) == sbBuffer

SbBegins(b) == IF b = Sb THEN <<>> ELSE sbBuffer

IacByte(b) ==
    /\ TakesByte({"Iac"})
    /\ telnetState' = StateAfterIac(b)
    /\ sbBuffer' = SbBegins(b)
    /\ inputBuffer' = IF b = Iac THEN Append(inputBuffer, Iac) ELSE inputBuffer
    /\ UNCHANGED <<incoming, msspNegotiated, enabled, wsPendingSend, written, room>>

\* handleNegotiation(): what is answered, and what it turns on.  WONT and DONT
\* turn nothing off.
Answers(kind, option) ==
    CASE kind = "Will" /\ option = Ttype -> <<RequestTerminalType>>
      [] kind = "Will" /\ option \in Switched -> <<<<Iac, Do, option>>>>
      [] kind = "Will" /\ option \notin Switched \cup {Echo, Naws, Ttype} -> <<<<Iac, Dont, option>>>>
      [] kind = "Do" /\ option \notin Switched \cup {Echo, Mssp} -> <<<<Iac, Wont, option>>>>
      [] OTHER -> <<>>

Announced(k, kind, option) ==
    IF k \in DOMAIN EnabledBy /\ kind \in {"Will", "Do"} /\ option = EnabledBy[k] THEN <<<<>>>> ELSE <<>>

NegotiationByte(option) ==
    /\ TakesByte({"Will", "Wont", "Do", "Dont"})
    /\ telnetState' = "Data"
    /\ Send(Answers(telnetState, option))
    /\ enabled' = IF telnetState \in {"Will", "Do"} THEN enabled \cup ({option} \cap Switched) ELSE enabled
    /\ msspNegotiated' = (msspNegotiated \/ (telnetState = "Do" /\ option = Mssp))
    /\ Receive([k \in Kinds |-> Announced(k, telnetState, option)])
    /\ UNCHANGED <<sbBuffer, inputBuffer>>

SbByte(b) ==
    /\ TakesByte({"Sb"})
    /\ IF b = Iac THEN telnetState' = "SbIac" /\ UNCHANGED sbBuffer
       ELSE sbBuffer' = Append(sbBuffer, b) /\ UNCHANGED telnetState
    /\ UNCHANGED <<inputBuffer, incoming, msspNegotiated, enabled, wsPendingSend, written, room>>

\* The parts of a text, each of which a NUL ends.
Fields(text) ==
    LET nuls == {i \in DOMAIN text : text[i] = 0}
        end == CHOOSE e \in [1..Cardinality(nuls) -> nuls] : \A i, j \in DOMAIN e : i < j => e[i] < e[j]
    IN  [k \in DOMAIN end |-> SubSeq(text, IF k = 1 THEN 1 ELSE end[k - 1] + 1, end[k] - 1)]

\* The name and the value of an MSDP message <<VarMark>> \o ...
MsdpPair(text) ==
    LET vals == {i \in 2..Len(text) : text[i] = ValMark}
    IN  IF vals = {} THEN <<Tail(text), <<>>>>
        ELSE <<SubSeq(text, 2, Min(vals) - 1), SubSeq(text, Min(vals) + 1, Len(text))>>

\* handleSubnegotiation(): the message of kind k in the buffer sb.
Delivered(k, sb) ==
    LET text == Tail(sb)
        about(kind, option) == k = kind /\ sb # <<>> /\ sb[1] = option /\ text # <<>>
    IN  CASE about("terminal_type", Ttype) /\ text[1] = TelQualIs -> <<Tail(text)>>
          [] about("gmcp", Gmcp) -> <<text>>
          [] about("msdp", Msdp) /\ text[1] = VarMark -> <<MsdpPair(text)>>
          [] about("zmp_command", Zmp) /\ Last(text) = 0 -> <<<<Head(Fields(text)), Tail(Fields(text))>>>>
          [] about("window_size", Naws) /\ Len(text) >= 4 ->
                 <<<<text[1] * 256 + text[2], text[3] * 256 + text[4]>>>>
          [] OTHER -> <<>>

\* SE ends the subnegotiation, any other command but a doubled IAC abandons it.
SbIacByte(b) ==
    /\ TakesByte({"SbIac"})
    /\ telnetState' = IF b = Iac THEN "Sb" ELSE "Data"
    /\ sbBuffer' = IF b = Iac THEN Append(sbBuffer, Iac) ELSE sbBuffer
    /\ Receive([k \in Kinds |-> IF b = Se THEN Delivered(k, sbBuffer) ELSE <<>>])
    /\ enabled' = IF b = Se /\ sbBuffer # <<>> THEN enabled \cup ({sbBuffer[1]} \cap {Gmcp, Msdp, Zmp})
                  ELSE enabled
    /\ UNCHANGED <<inputBuffer, msspNegotiated, wsPendingSend, written, room>>

ProcessTelnetBytes ==
    LET b == Head(rawChunk)
    IN  DataByte(b) \/ IacByte(b) \/ NegotiationByte(b) \/ SbByte(b) \/ SbIacByte(b)

-----------------------------------------------------------------------------
(* The end of a poll: lines are split off, and the mudlib is told.         *)

WithoutCR(line) == IF line # <<>> /\ Last(line) = CR THEN Front(line) ELSE line

\* The first line ends the suppressed echo.
SplitLine(pos) ==
    /\ step = "telnet" /\ rawChunk = <<>>
    /\ inputBuffer[pos] = LF /\ \A i \in 1..(pos - 1) : inputBuffer[i] # LF
    /\ incoming' = [incoming EXCEPT !["line"] = Append(@, WithoutCR(SubSeq(inputBuffer, 1, pos - 1)))]
    /\ inputBuffer' = SubSeq(inputBuffer, pos + 1, Len(inputBuffer))
    /\ echoSuppressed' = FALSE
    /\ Send(IF echoSuppressed THEN <<<<Iac, Wont, Echo>>>> ELSE <<>>)
    /\ UNCHANGED <<sender, carrier, telnetState, sbBuffer, msspNegotiated, enabled, polling>>

\* handleConnection(): what came out of band, and then the lines.
HandleConnection ==
    LET offer == useWebSocket /\ wsHandshakeDone /\ ~telnetOffered
    IN  /\ step = "telnet" /\ rawChunk = <<>> /\ \A i \in DOMAIN inputBuffer : inputBuffer[i] # LF
        /\ Send((IF offer THEN TelnetOffers ELSE <<>>) \o (IF msspNegotiated THEN <<SendMssp>> ELSE <<>>))
        /\ telnetOffered' = (telnetOffered \/ offer) /\ msspNegotiated' = FALSE
        /\ told' = [k \in Kinds |-> told[k] \o incoming[k]] /\ incoming' = Nothing
        /\ step' = "idle"
        /\ UNCHANGED <<sender, useWebSocket, request, wsHandshakeDone, wsHttpBuffer, wsFrameBuffer,
                       telnetState, sbBuffer, inputBuffer, enabled, echoSuppressed,
                       rawChunk, arrived, closed>>

Efuns == SuppressEcho \/ RequestWindowSize \/ StartRequestTerminalType
         \/ \E b \in Contents : SendMspOob(<<b>>)

Polls == Arrive \/ DecodeWsFrames \/ ProcessTelnetBytes
         \/ (\E pos \in DOMAIN inputBuffer : SplitLine(pos)) \/ HandleConnection

StreamNext == Speak \/ Transmit \/ OnNewConnection \/ Efuns \/ Polls

StreamSpec == StreamInit /\ [][StreamNext]_streamVars

-----------------------------------------------------------------------------
\* Everything was sent, has arrived and was handled.
Settled ==
    /\ step = "idle" /\ ~closed /\ arrived = Len(Wire)
    /\ useWebSocket => wsHandshakeDone /\ Carried = Len(sent)

\* The calls of kind k are some of the messages, in their order.
Selected(k) ==
    \E at \in [DOMAIN told[k] -> DOMAIN messages[k]] :
        /\ \A i, j \in DOMAIN at : i < j => at[i] < at[j]
        /\ \A i \in DOMAIN at : told[k][i] = messages[k][at[i]]

\* However the bytes are cut into reads and frames, the mudlib is told of the
\* lines and out-of-band messages that were sent, each once, whole and in
\* order; of window sizes and the like it may miss all but the newest.  When
\* everything has arrived, nothing is missing, and the parser is where the
\* sender is.
ReceivedAsSent ==
    /\ \A k \in Queued : IsPrefix(told[k], messages[k])
    /\ \A k \in Flagged : Selected(k)
    /\ Settled =>
          /\ \A k \in Queued : told[k] = messages[k]
          /\ \A k \in Flagged : messages[k] # <<>> => told[k] # <<>> /\ Last(told[k]) = Last(messages[k])
          /\ inputBuffer = typed /\ wsFrameBuffer = <<>>
          /\ telnetState = IF saying.kind = "none" THEN "Data" ELSE "Sb"
=============================================================================
