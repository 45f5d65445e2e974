---------------------------- MODULE ServicesProofs ----------------------------
(***************************************************************************)
(* Proofs about Services, for any plugin, file and registrations.          *)
(***************************************************************************)
EXTENDS Services, PluginStringProofs

-----------------------------------------------------------------------------
(* The file.  What a read has is the front of it, unless it was cut short in
   between. *)

Contents == Seq(Nat)

ReadingOf(r, f) ==
  /\ r \in [pc : {"read"}, count : Nat, bytes : Contents, shrunk : BOOLEAN]
  /\ Len(r.bytes) <= r.count /\ r.count <= Limit["io_data"]
  /\ ~r.shrunk => r.count <= Len(f) /\ \A i \in 1..Len(r.bytes) : r.bytes[i] = f[i]

Buffers == {b \in Contents : Len(b) \in 1..Limit["io_data"]}

IoInv ==
  /\ file \in Contents /\ writes \in Nat
  /\ reading = NotReading \/ ReadingOf(reading, file)
  /\ buffers \in Seq(Buffers)
  /\ WholeFileOrNothing

LEMMA LimitIs ==
  /\ \A l \in StringLimits : Limit[l] \in Nat \ {0, 1, 2}
  /\ \A l \in CountLimits : Limit[l] \in Nat /\ Limit[l] \in Nat \ {0}
BY LimitAssumption DEF LimitAssumption

LEMMA HandOverKeeps ==
  ASSUME NEW bytes \in Contents, NEW ended, NEW shrunk, HandOver(bytes, ended, shrunk),
         buffers \in Seq(Buffers), bytes # <<>> /\ ~shrunk => bytes = ended
  PROVE  reading' = NotReading /\ buffers' \in Seq(Buffers) /\ WholeFileOrNothing'
<1>1. CASE answer' = Empty /\ UNCHANGED buffers
  BY <1>1 DEF HandOver, Empty, WholeFileOrNothing
<1>2. CASE /\ Len(bytes) \in 1..Limit["io_data"]
           /\ answer' = [Empty EXCEPT !.data = bytes, !.ended = ended, !.shrunk = shrunk]
           /\ buffers' = Append(buffers, bytes)
  <2>1. bytes \in Buffers
    BY <1>2 DEF Buffers
  <2>2. buffers' \in Seq(Buffers)
    BY <1>2, <2>1, AppendProperties
  <2>3. WholeFileOrNothing'
    BY <1>2 DEF Empty, WholeFileOrNothing
  <2>. QED BY <2>2, <2>3 DEF HandOver
<1>. QED BY <1>1, <1>2 DEF HandOver

LEMMA NoData == <<>> \in Contents
BY DEF Contents

LEMMA IoInit == Init => IoInv
<1>1. <<>> \in Contents /\ <<>> \in Seq(Buffers)
  BY DEF Contents
<1>. QED BY <1>1 DEF Init, IoInv, WholeFileOrNothing, NoAnswer

LEMMA IoHost ==
  ASSUME IoInv, ReadFromHost
  PROVE  IoInv'
<1>1. PICK n \in 0..(Limit["io_data"] + 1) :
        HandOver([i \in 1..n |-> 0], [i \in 1..n |-> 0], FALSE)
  BY DEF ReadFromHost
<1>2. n \in Nat
  BY LimitIs DEF CountLimits
<1>3. [i \in 1..n |-> 0] \in Contents
  BY <1>2 DEF Contents
<1>4. reading' = NotReading /\ buffers' \in Seq(Buffers) /\ WholeFileOrNothing'
  BY <1>1, <1>3, HandOverKeeps DEF IoInv
<1>5. file' = file /\ writes' = writes
  BY DEF ReadFromHost
<1>. QED BY <1>4, <1>5 DEF IoInv

LEMMA IoBegin ==
  ASSUME IoInv, BeginRead
  PROVE  IoInv'
<1>1. file' = file /\ writes' = writes
  BY DEF BeginRead
<1>2. \/ /\ Len(file) <= Limit["io_data"]
         /\ reading' = [pc |-> "read", count |-> Len(file), bytes |-> <<>>, shrunk |-> FALSE]
         /\ UNCHANGED <<answer, buffers>>
      \/ HandOver(<<>>, <<>>, FALSE)
  BY Zenon DEF BeginRead
<1>3. CASE /\ Len(file) <= Limit["io_data"]
           /\ reading' = [pc |-> "read", count |-> Len(file), bytes |-> <<>>, shrunk |-> FALSE]
           /\ UNCHANGED <<answer, buffers>>
  <2>. DEFINE r == [pc |-> "read", count |-> Len(file), bytes |-> <<>>, shrunk |-> FALSE]
  <2>1. Len(file) \in Nat /\ <<>> \in Contents /\ Len(<<>>) = 0
    BY NoData DEF IoInv, Contents
  <2>2. reading' = r /\ answer' = answer /\ buffers' = buffers
    BY <1>3
  <2>3. r \in [pc : {"read"}, count : Nat, bytes : Contents, shrunk : BOOLEAN]
    BY <2>1
  <2>4. r.bytes = <<>> /\ r.count = Len(file) /\ r.shrunk = FALSE
    OBVIOUS
  <2>. HIDE DEF r
  <2>5. ReadingOf(r, file)
    <3>1. \A i \in 1..Len(r.bytes) : r.bytes[i] = file[i]
      BY <2>1, <2>4
    <3>2. Len(r.bytes) <= r.count /\ r.count <= Len(file)
      BY <2>1, <2>4
    <3>3. r.count <= Limit["io_data"]
      BY <1>3, <2>4
    <3>. QED BY <2>3, <3>1, <3>2, <3>3 DEF ReadingOf
  <2>6. WholeFileOrNothing'
    BY <2>2 DEF IoInv, WholeFileOrNothing
  <2>. QED BY <1>1, <2>2, <2>5, <2>6 DEF IoInv
<1>4. CASE HandOver(<<>>, <<>>, FALSE)
  BY <1>1, <1>4, NoData, HandOverKeeps DEF IoInv
<1>. QED BY <1>2, <1>3, <1>4

LEMMA SliceIs ==
  ASSUME NEW s \in Seq(Nat), NEW a \in Nat, NEW n \in Nat, a < n, n <= Len(s)
  PROVE  LET t == SubSeq(s, a + 1, n)
         IN  t \in Seq(Nat) /\ Len(t) = n - a /\ \A i \in 1..(n - a) : t[i] = s[a + i]
<1>. DEFINE t == SubSeq(s, a + 1, n)
<1>1. Len(s) \in Nat /\ \A i \in (a + 1)..n : s[i] \in Nat
  OBVIOUS
<1>2. /\ t \in Seq(Nat) /\ Len(t) = (IF a + 1 <= n THEN n - (a + 1) + 1 ELSE 0)
      /\ \A i \in 1..(n - (a + 1) + 1) : t[i] = s[a + 1 + i - 1]
  BY <1>1, SubSeqProperties
<1>. HIDE DEF t
<1>3. n - (a + 1) + 1 = n - a /\ a + 1 <= n
  OBVIOUS
<1>4. \A i \in 1..(n - a) : a + 1 + i - 1 = a + i
  OBVIOUS
<1>5. Len(t) = n - a /\ \A i \in 1..(n - a) : t[i] = s[a + i]
  BY <1>2, <1>3, <1>4
<1>. QED BY <1>2, <1>5 DEF t

LEMMA IoSome ==
  ASSUME IoInv, ReadSome
  PROVE  IoInv'
<1>. DEFINE bytes == reading.bytes  at == Len(bytes)
<1>1. ReadingOf(reading, file)
  BY DEF ReadSome, IoInv, NotReading
<1>2. file' = file /\ writes' = writes
  BY DEF ReadSome
<1>3. at >= Len(file) /\ HandOver(<<>>, <<>>, FALSE) => IoInv'
  BY <1>2, NoData, HandOverKeeps DEF IoInv
<1>4. ASSUME NEW n \in (at + 1)..reading.count, n <= Len(file),
             reading' = [reading EXCEPT !.bytes = @ \o SubSeq(file, at + 1, n)],
             UNCHANGED <<answer, buffers>>
      PROVE  IoInv'
  <2>. DEFINE more == SubSeq(file, at + 1, n)  all == bytes \o more
  <2>1. /\ bytes \in Contents /\ at \in Nat /\ reading.count \in Nat /\ reading.shrunk \in BOOLEAN
        /\ file \in Contents /\ reading.count <= Limit["io_data"]
        /\ ~reading.shrunk => reading.count <= Len(file) /\ \A i \in 1..at : bytes[i] = file[i]
    BY <1>1 DEF ReadingOf, IoInv, Contents
  <2>2. reading' = [reading EXCEPT !.bytes = all]
    BY <1>4
  <2>3. n \in Nat /\ at + 1 \in 1..n
    BY <2>1
  <2>4. more \in Contents /\ Len(more) = n - at /\ \A i \in 1..(n - at) : more[i] = file[at + i]
    <3>. HIDE DEF at
    <3>1. /\ file \in Seq(Nat) /\ at \in Nat /\ n \in Nat /\ at < n /\ n <= Len(file)
      BY <1>4, <2>1, <2>3 DEF Contents
    <3>2. more \in Seq(Nat) /\ Len(more) = n - at /\ \A i \in 1..(n - at) : more[i] = file[at + i]
      BY <3>1, SliceIs
    <3>. QED BY <3>2 DEF Contents
  <2>. HIDE DEF more
  <2>5. /\ all \in Contents /\ Len(all) = n
        /\ \A i \in 1..n : all[i] = IF i <= at THEN bytes[i] ELSE more[i - at]
    <3>. HIDE DEF bytes
    <3>0. bytes \in Seq(Nat) /\ more \in Seq(Nat)
      BY <2>1, <2>4 DEF Contents
    <3>1. /\ all \in Seq(Nat) /\ Len(all) = at + Len(more)
          /\ \A i \in 1..(at + Len(more)) : all[i] = IF i <= at THEN bytes[i] ELSE more[i - at]
      BY <3>0, ConcatProperties
    <3>2. at + Len(more) = n
      BY <2>1, <2>3, <2>4
    <3>. QED BY <3>1, <3>2 DEF Contents
  <2>. HIDE DEF all
  <2>6. ASSUME ~reading.shrunk
        PROVE  \A i \in 1..n : all[i] = file[i]
    <3>. HIDE DEF at, bytes
    <3>1. ASSUME NEW i \in 1..n
          PROVE  all[i] = file[i]
      <4>1. CASE i <= at
        <5>1. i \in 1..at
          BY <2>1, <4>1
        <5>2. bytes[i] = file[i]
          BY <2>1, <2>6, <5>1
        <5>. QED BY <2>5, <4>1, <5>2
      <4>2. CASE i > at
        <5>1. i - at \in 1..(n - at) /\ at + (i - at) = i /\ ~(i <= at)
          BY <2>1, <2>3, <4>2
        <5>2. more[i - at] = file[i]
          BY <2>4, <5>1
        <5>. QED BY <2>5, <5>1, <5>2
      <4>. QED BY <2>1, <4>1, <4>2
    <3>. QED BY <3>1
  <2>7. ReadingOf(reading', file)
    <3>1. /\ reading' \in [pc : {"read"}, count : Nat, bytes : Contents, shrunk : BOOLEAN]
          /\ reading'.bytes = all /\ reading'.count = reading.count
          /\ reading'.shrunk = reading.shrunk
      BY <1>1, <2>2, <2>5 DEF ReadingOf
    <3>2. Len(all) <= reading.count
      BY <2>1, <2>3, <2>5
    <3>. QED BY <2>1, <2>5, <2>6, <3>1, <3>2 DEF ReadingOf
  <2>. QED BY <1>2, <1>4, <2>7 DEF IoInv, WholeFileOrNothing
<1>. QED BY <1>3, <1>4 DEF ReadSome

LEMMA IoTrailing ==
  ASSUME IoInv, ReadTrailing
  PROVE  IoInv'
<1>. DEFINE bytes == reading.bytes
            given == IF AtItsEnd THEN bytes ELSE <<>>
<1>1. ReadingOf(reading, file)
  BY DEF ReadTrailing, IoInv, NotReading
<1>2. file' = file /\ writes' = writes /\ HandOver(given, file, reading.shrunk)
  BY DEF ReadTrailing
<1>3. Len(bytes) = reading.count
  BY DEF ReadTrailing
<1>4. given \in Contents
  BY <1>1, NoData DEF ReadingOf
<1>5. given # <<>> /\ ~reading.shrunk => given = file
  <2>1. SUFFICES ASSUME AtItsEnd, ~reading.shrunk
                 PROVE  bytes = file
    OBVIOUS
  <2>2. /\ bytes \in Contents /\ file \in Contents
        /\ reading.count \in Nat /\ reading.count <= Len(file) /\ Len(file) <= reading.count
        /\ \A i \in 1..Len(bytes) : bytes[i] = file[i]
    BY <1>1, <2>1 DEF ReadingOf, AtItsEnd, IoInv
  <2>. HIDE DEF bytes
  <2>3. Len(bytes) = Len(file)
    BY <1>3, <2>2 DEF Contents
  <2>. QED BY <2>2, <2>3, SeqEqual DEF Contents
<1>. HIDE DEF given
<1>6. reading' = NotReading /\ buffers' \in Seq(Buffers) /\ WholeFileOrNothing'
  BY <1>2, <1>4, <1>5, HandOverKeeps DEF IoInv
<1>. QED BY <1>2, <1>6 DEF IoInv

LEMMA RemovedIsSeq ==
  ASSUME NEW S, NEW s \in Seq(S), NEW i \in DOMAIN s
  PROVE  RemoveAt(s, i) \in Seq(S)
<1>. DEFINE before == SubSeq(s, 1, i - 1)  after == SubSeq(s, i + 1, Len(s))
<1>1. Len(s) \in Nat /\ i \in 1..Len(s) /\ \A k \in 1..Len(s) : s[k] \in S
  OBVIOUS
<1>2. before \in Seq(S)
  <2>1. i - 1 \in Nat /\ \A k \in 1..(i - 1) : s[k] \in S
    BY <1>1
  <2>. QED BY <2>1, SubSeqProperties
<1>3. after \in Seq(S)
  <2>1. i + 1 \in 1..(Len(s) + 1) /\ \A k \in (i + 1)..Len(s) : s[k] \in S
    BY <1>1
  <2>. QED BY <1>1, <2>1, SubSeqProperties
<1>. HIDE DEF before, after
<1>4. before \o after \in Seq(S)
  BY <1>2, <1>3, ConcatProperties
<1>. QED BY <1>4 DEF RemoveAt, before, after

LEMMA IoFree ==
  ASSUME IoInv, free_url_to_memory
  PROVE  IoInv'
<1>1. PICK i \in DOMAIN buffers : buffers' = RemoveAt(buffers, i)
  BY DEF free_url_to_memory
<1>2. buffers' \in Seq(Buffers)
  BY <1>1, RemovedIsSeq DEF IoInv
<1>3. file' = file /\ writes' = writes /\ reading' = reading /\ answer' = NoAnswer
  BY DEF free_url_to_memory
<1>4. WholeFileOrNothing'
  BY <1>3 DEF WholeFileOrNothing, NoAnswer
<1>. QED BY <1>2, <1>3, <1>4 DEF IoInv

LEMMA FrontIs ==
  ASSUME NEW s \in Seq(Nat), s # <<>>
  PROVE  Front(s) \in Seq(Nat) /\ Len(Front(s)) < Len(s)
<1>1. Len(s) \in Nat /\ Len(s) # 0
  OBVIOUS
<1>2. /\ 1 \in 1..(Len(s) - 1 + 1) /\ Len(s) - 1 \in Nat
      /\ \A k \in 1..(Len(s) - 1) : s[k] \in Nat
  BY <1>1
<1>3. SubSeq(s, 1, Len(s) - 1) \in Seq(Nat)
  BY <1>2, SubSeqProperties
<1>4. Len(SubSeq(s, 1, Len(s) - 1)) = IF 1 <= Len(s) - 1 THEN Len(s) - 1 - 1 + 1 ELSE 0
  BY <1>2, SubSeqProperties
<1>5. Len(SubSeq(s, 1, Len(s) - 1)) < Len(s)
  BY <1>1, <1>4
<1>. QED BY <1>3, <1>5 DEF Front

LEMMA IoWrite ==
  ASSUME IoInv, WriteFile
  PROVE  IoInv'
<1>1. file \in Contents /\ writes' \in Nat /\ Len(file) \in Nat
  BY DEF IoInv, WriteFile, Contents
<1>2. answer' = answer /\ buffers' = buffers
  BY DEF WriteFile
<1>3. /\ file' \in Contents
      /\ \/ Len(file') < Len(file)
         \/ Len(file') >= Len(file) /\ \A i \in 1..Len(file) : file'[i] = file[i]
  <2>1. CASE file' = Append(file, writes')
    BY <1>1, <2>1, AppendProperties DEF Contents
  <2>2. CASE file # <<>> /\ file' = Front(file)
    <3>1. file \in Seq(Nat)
      BY <1>1 DEF Contents
    <3>2. Front(file) \in Seq(Nat) /\ Len(Front(file)) < Len(file)
      BY <2>2, <3>1, FrontIs
    <3>. QED BY <2>2, <3>2 DEF Contents
  <2>. QED BY <2>1, <2>2 DEF WriteFile
<1>4. WholeFileOrNothing'
  BY <1>2 DEF IoInv, WholeFileOrNothing
<1>5. CASE reading = NotReading
  BY <1>1, <1>2, <1>3, <1>4, <1>5 DEF IoInv, WriteFile
<1>6. CASE ReadingOf(reading, file)
  <2>1. reading # NotReading
    BY <1>6 DEF ReadingOf, NotReading
  <2>2. reading' = [reading EXCEPT !.shrunk = @ \/ Len(file') < Len(file)]
    BY <2>1 DEF WriteFile
  <2>3. /\ reading' \in [pc : {"read"}, count : Nat, bytes : Contents, shrunk : BOOLEAN]
        /\ reading'.bytes = reading.bytes /\ reading'.count = reading.count
        /\ reading'.shrunk <=> reading.shrunk \/ Len(file') < Len(file)
    BY <1>6, <2>2 DEF ReadingOf
  <2>4. ASSUME ~reading'.shrunk
        PROVE  /\ reading.count <= Len(file')
               /\ \A i \in 1..Len(reading.bytes) : reading.bytes[i] = file'[i]
    <3>1. ~reading.shrunk /\ ~(Len(file') < Len(file))
      BY <2>3, <2>4
    <3>2. /\ reading.count \in Nat /\ Len(reading.bytes) \in Nat
          /\ Len(reading.bytes) <= reading.count /\ reading.count <= Len(file)
          /\ \A i \in 1..Len(reading.bytes) : reading.bytes[i] = file[i]
      BY <1>6, <3>1 DEF ReadingOf, Contents
    <3>3. Len(file') \in Nat /\ Len(file') >= Len(file) /\ \A i \in 1..Len(file) : file'[i] = file[i]
      BY <1>3, <3>1 DEF Contents
    <3>4. reading.count <= Len(file')
      BY <1>1, <3>2, <3>3
    <3>5. \A i \in 1..Len(reading.bytes) : i \in 1..Len(file)
      BY <1>1, <3>2
    <3>. QED BY <3>2, <3>3, <3>4, <3>5
  <2>5. ReadingOf(reading', file')
    BY <1>6, <2>3, <2>4 DEF ReadingOf
  <2>. QED BY <1>1, <1>2, <1>3, <1>4, <2>5 DEF IoInv
<1>. QED BY <1>5, <1>6 DEF IoInv

LEMMA IoElsewhere ==
  ASSUME IoInv, UNCHANGED io,
         UNCHANGED answer \/ answer'.call # "read_url_to_memory"
  PROVE  IoInv'
<1>1. WholeFileOrNothing'
  BY DEF IoInv, WholeFileOrNothing
<1>. QED BY <1>1 DEF IoInv, io

LEMMA IoStep ==
  ASSUME IoInv, [Next]_vars
  PROVE  IoInv'
<1>1. CASE GetService
  BY <1>1, IoElsewhere DEF GetService
<1>2. CASE Push
  <2>1. UNCHANGED io /\ answer'.call = "push"
    BY <1>2 DEF Push
  <2>. QED BY <2>1, IoElsewhere
<1>3. CASE Take
  BY <1>3, IoElsewhere DEF Take
<1>4. CASE exists
  <2>1. UNCHANGED io /\ answer'.call = "exists"
    <3>1. \E is \in BOOLEAN : answer' = [call |-> "exists", is |-> is]
      BY <1>4, Zenon DEF exists
    <3>2. UNCHANGED io
      BY <1>4, Zenon DEF exists
    <3>. QED BY <3>1, <3>2
  <2>. QED BY <2>1, IoElsewhere
<1>5. CASE Log
  <2>1. UNCHANGED io /\ answer'.call = "log"
    BY <1>5 DEF Log
  <2>. QED BY <2>1, IoElsewhere
<1>6. CASE Reg
  <2>1. UNCHANGED io /\ answer'.call = "reg"
    <3>1. \E result : answer' = [call |-> "reg", result |-> result]
      BY <1>6, Zenon DEF Reg, Registers
    <3>2. UNCHANGED io
      BY <1>6, Zenon DEF Reg
    <3>. QED BY <3>1, <3>2
  <2>. QED BY <2>1, IoElsewhere
<1>7. CASE Get
  BY <1>7, IoElsewhere DEF Get
<1>8. CASE SetValue
  BY <1>8, IoElsewhere DEF SetValue
<1>9. CASE UNCHANGED vars
  BY <1>9, IoElsewhere DEF vars, io
<1>. QED BY <1>1, <1>2, <1>3, <1>4, <1>5, <1>6, <1>7, <1>8, <1>9, IoHost, IoBegin, IoSome,
            IoTrailing, IoFree, IoWrite DEF Next, Io

(* io.rs: a plugin is never given part of a file as the whole of it, unless the
   file was cut short while it was read: whatever the file, its growth, the
   plugin's other calls and the io limit. *)
THEOREM WholeFile == Spec => []WholeFileOrNothing
<1>1. IoInv => WholeFileOrNothing
  BY DEF IoInv
<1>. QED BY <1>1, IoInit, IoStep, PTL DEF Spec

-----------------------------------------------------------------------------
(* The log.  A message the shim formatted is never over the limit of the other
   side, since its buffer is as large as that. *)

LEMMA ReadIs ==
  ASSUME NEW s \in Strings, NEW l \in StringLimits
  PROVE  /\ s \in {Null} \cup Seq(Bytes)
         /\ Read[s, l] = plugin_str(s, Limit[l]) /\ Decoded[s, l] = decode(s, Limit[l])
BY ReadAssumption, Zenon DEF ReadAssumption

(* Whether there is a line, and what is in it. *)
LineWith(line, message) == line # NoLine /\ line.message = message

LEMMA LineIs ==
  ASSUME NEW level, NEW file_text, NEW line, NEW message
  PROVE  LineWith([level |-> level, file |-> file_text, line |-> line, message |-> message],
                  message)
BY DEF NoLine, LineWith

FileIsRead(file_name) == Read[file_name, "log_file"] # Refused

(* What plugin_str makes of a text as long as its limit or less. *)
Readable(s, limit, message) ==
  message # Null /\ message # Refused /\ (IsUtf8(s) => message = s)

LEMMA MessageIs ==
  ASSUME NEW text \in Strings, text # Null, Len(text) <= Limit["log_message"]
  PROVE  \E message : /\ Read[text, "log_message"] = message
                      /\ Readable(text, Limit["log_message"], message)
<1>. DEFINE limit == Limit["log_message"]
<1>1. "log_message" \in StringLimits /\ limit \in Nat
  BY LimitIs DEF StringLimits
<1>2. text \in {Null} \cup Seq(Bytes) /\ Read[text, "log_message"] = plugin_str(text, limit)
  BY <1>1, ReadIs, Zenon
<1>3. Readable(text, limit, plugin_str(text, limit))
  <2>1. text \in {Null} \cup Seq(Bytes)
    BY <1>2, Zenon
  <2>2. text # Null /\ Len(text) <= limit
    OBVIOUS
  <2>. HIDE DEF limit
  <2>3. LET x == plugin_str(text, limit) IN x # Null /\ x # Refused /\ (IsUtf8(text) => x = text)
    BY <1>1, <2>1, <2>2, PluginStrIs
  <2>. QED BY <2>3 DEF Readable
<1>. QED BY <1>2, <1>3, Zenon

LEMMA WrittenIs ==
  ASSUME NEW level, NEW file_name, NEW line, NEW text \in Strings, FileIsRead(file_name),
         text # Null, Len(text) <= Limit["log_message"]
  PROVE  \E message : /\ LineWith(LogWrite(level, file_name, line, text), message)
                      /\ IsUtf8(text) => message = text
<1>1. PICK message : /\ Read[text, "log_message"] = message
                     /\ Readable(text, Limit["log_message"], message)
  BY MessageIs, Zenon
<1>2. LogWrite(level, file_name, line, text) =
        [level |-> from_raw(level), file |-> Read[file_name, "log_file"],
         line |-> IF line < 0 THEN 0 ELSE line, message |-> message]
  <2>1. ~(Read[file_name, "log_file"] = Refused \/ Read[text, "log_message"] \in {Null, Refused})
    BY <1>1, Zenon DEF FileIsRead, Readable
  <2>. QED BY <1>1, <2>1, Zenon DEF LogWrite
<1>3. LineWith(LogWrite(level, file_name, line, text), message)
  BY <1>2, LineIs, Zenon
<1>. QED BY <1>1, <1>3, Zenon DEF Readable

LEMMA WholePrefixIs ==
  ASSUME NEW s \in Seq(Bytes)
  PROVE  SubSeq(s, 1, Len(s)) = s
<1>. DEFINE t == SubSeq(s, 1, Len(s))
<1>1. Len(s) \in 0..Len(s)
  OBVIOUS
<1>2. t \in Seq(Bytes) /\ Len(t) = Len(s) /\ \A i \in 1..Len(s) : t[i] = s[i]
  BY <1>1, PrefixIs
<1>. HIDE DEF t
<1>3. t = s
  BY <1>2, SeqEqual
<1>. QED BY <1>3 DEF t

LEMMA ShimIs ==
  ASSUME NEW c \in LogCalls, c.fmt # Null, Len(c.fmt) <= Limit["log_format"],
         FileIsRead(c.file)
  PROVE  /\ LogShim(c) # NoLine
         /\ IsUtf8(c.formatted) /\ Len(c.formatted) <= Limit["log_message"]
              => LogShim(c).message = c.formatted
<1>. DEFINE s == c.formatted  limit == Limit["log_message"]
            fit == IF Len(s) < ShimBuffer THEN Len(s) ELSE ShimBuffer - 1
            text == SubSeq(s, 1, fit)
<1>1. /\ s \in Seq(Bytes) /\ c.fmt \in {Null} \cup Seq(Bytes)
      /\ \A n \in 0..Len(s) : SubSeq(s, 1, n) \in Strings
  <2>1. IsLogCall(c)
    BY PluginAssumption DEF PluginAssumption
  <2>. QED BY <2>1, Zenon DEF IsLogCall
<1>2. limit \in Nat /\ Len(s) \in Nat
  <2>1. "log_message" \in StringLimits
    BY DEF StringLimits
  <2>2. limit \in Nat
    BY <2>1, LimitIs
  <2>3. s \in Seq(Bytes)
    BY <1>1
  <2>. HIDE DEF s, limit
  <2>. QED BY <2>2, <2>3
<1>3. LogShim(c) = LogWrite(c.level, c.file, c.line, text)
  <2>1. Len(c.fmt) \in Nat /\ Limit["log_format"] \in Nat
    BY <1>1, LimitIs DEF CountLimits
  <2>2. ~(c.fmt = Null \/ Len(c.fmt) > Limit["log_format"])
    BY <2>1
  <2>. QED BY <2>2, Zenon DEF LogShim
<1>4. ShimBuffer = limit + 1
  BY DEF ShimBuffer
<1>. HIDE DEF s, limit
<1>5. fit \in 0..Len(s) /\ fit <= limit /\ (Len(s) <= limit => fit = Len(s))
  BY <1>2, <1>4
<1>. HIDE DEF fit
<1>6. text \in Strings /\ text \in Seq(Bytes) /\ Len(text) <= limit
  BY <1>1, <1>5, PrefixIs
<1>7. text # Null
  BY <1>6, BytesAreNotNull
<1>8. Len(s) <= limit => text = s
  BY <1>1, <1>5, WholePrefixIs
<1>. HIDE DEF text
<1>9. PICK message : /\ LineWith(LogWrite(c.level, c.file, c.line, text), message)
                     /\ IsUtf8(text) => message = text
  BY <1>6, <1>7, WrittenIs DEF limit
<1>10. LogShim(c) # NoLine /\ LogShim(c).message = message
  BY <1>3, <1>9 DEF LineWith
<1>. QED BY <1>8, <1>9, <1>10 DEF s, limit

LEMMA LogInit == Init => FormattedIsLogged
<1>1. Init => answer.call # "log"
  BY DEF Init, NoAnswer
<1>. QED BY <1>1, Zenon DEF FormattedIsLogged

LEMMA LogElsewhere ==
  ASSUME FormattedIsLogged, UNCHANGED answer \/ answer'.call # "log"
  PROVE  FormattedIsLogged'
BY Zenon DEF FormattedIsLogged

LEMMA HandedOver ==
  ASSUME NEW bytes, NEW ended, NEW shrunk, HandOver(bytes, ended, shrunk)
  PROVE  answer'.call = "read_url_to_memory"
<1>1. \/ answer' = Empty
      \/ answer' = [Empty EXCEPT !.data = bytes, !.ended = ended, !.shrunk = shrunk]
  BY Zenon DEF HandOver
<1>2. \A data, e, s : [Empty EXCEPT !.data = data, !.ended = e, !.shrunk = s].call = Empty.call
  BY DEF Empty
<1>. QED BY <1>1, <1>2 DEF Empty

(* What an answer is to. *)
LEMMA AnswerOf ==
  ASSUME Next
  PROVE  \/ UNCHANGED answer
         \/ GetService /\ answer'.call = "get_service"
         \/ Push /\ answer'.call = "push"
         \/ Io /\ answer'.call \in {"exists", "read_url_to_memory", "none"}
         \/ Log /\ answer'.call = "log"
         \/ Reg /\ answer'.call = "reg"
         \/ Get /\ answer'.call = "get"
<1>1. CASE GetService
  <2>1. \E null : answer' = [call |-> "get_service", null |-> null]
    BY <1>1, Zenon DEF GetService
  <2>. QED BY <1>1, <2>1
<1>2. CASE Push
  <2>1. \E id : answer' = [call |-> "push", id |-> id]
    BY <1>2, Zenon DEF Push
  <2>. QED BY <1>2, <2>1
<1>3. CASE Take \/ WriteFile \/ SetValue
  BY <1>3, Zenon DEF Take, WriteFile, SetValue
<1>4. CASE Io
  <2>1. CASE exists
    <3>1. \E is : answer' = [call |-> "exists", is |-> is]
      BY <2>1, Zenon DEF exists
    <3>. QED BY <1>4, <3>1
  <2>2. CASE ReadFromHost
    <3>1. \E bytes : HandOver(bytes, bytes, FALSE)
      BY <2>2, Zenon DEF ReadFromHost
    <3>. QED BY <1>4, <3>1, HandedOver
  <2>3. CASE BeginRead
    <3>1. UNCHANGED answer \/ HandOver(<<>>, <<>>, FALSE)
      BY <2>3, Zenon DEF BeginRead
    <3>. QED BY <1>4, <3>1, HandedOver
  <2>4. CASE ReadSome
    <3>1. UNCHANGED answer \/ HandOver(<<>>, <<>>, FALSE)
      BY <2>4, Zenon DEF ReadSome
    <3>. QED BY <1>4, <3>1, HandedOver
  <2>5. CASE ReadTrailing
    <3>1. \E bytes : HandOver(bytes, file, reading.shrunk)
      BY <2>5, Zenon DEF ReadTrailing
    <3>. QED BY <1>4, <3>1, HandedOver
  <2>6. CASE free_url_to_memory
    <3>1. answer' = NoAnswer
      BY <2>6, Zenon DEF free_url_to_memory
    <3>. QED BY <1>4, <3>1 DEF NoAnswer
  <2>. QED BY <1>4, <2>1, <2>2, <2>3, <2>4, <2>5, <2>6 DEF Io
<1>5. CASE Log
  <2>1. \E c, line : answer' = [call |-> "log", with |-> c, line |-> line]
    BY <1>5, Zenon DEF Log
  <2>. QED BY <1>5, <2>1
<1>6. CASE Reg
  <2>1. \E result : answer' = [call |-> "reg", result |-> result]
    BY <1>6, Zenon DEF Reg, Registers
  <2>. QED BY <1>6, <2>1
<1>7. CASE Get
  <2>1. \E got : answer' = [call |-> "get", got |-> got]
    BY <1>7, Zenon DEF Get
  <2>. QED BY <1>7, <2>1
<1>. QED BY <1>1, <1>2, <1>3, <1>4, <1>5, <1>6, <1>7 DEF Next

LEMMA LogStep ==
  ASSUME FormattedIsLogged, [Next]_vars
  PROVE  FormattedIsLogged'
<1>1. CASE Log
  <2>1. PICK c \in LogCalls : answer' = [call |-> "log", with |-> c, line |-> LogShim(c)]
    BY <1>1, Zenon DEF Log
  <2>2. answer'.with = c /\ answer'.line = LogShim(c)
    BY <2>1
  <2>3. c.fmt # Null /\ Len(c.fmt) <= Limit["log_format"] /\ FileIsRead(c.file)
        => /\ LogShim(c) # NoLine
           /\ IsUtf8(c.formatted) /\ Len(c.formatted) <= Limit["log_message"]
                => LogShim(c).message = c.formatted
    BY ShimIs
  <2>. QED BY <2>2, <2>3, Zenon DEF FormattedIsLogged, FileIsRead
<1>2. CASE Next /\ ~Log
  <2>1. UNCHANGED answer \/ answer'.call # "log"
    BY <1>2, AnswerOf
  <2>. QED BY <2>1, LogElsewhere
<1>3. CASE UNCHANGED vars
  BY <1>3, LogElsewhere DEF vars
<1>. QED BY <1>1, <1>2, <1>3

(* log.rs and log_shim.c: what a plugin has formatted reaches the log, cut by the
   shim's buffer and never refused on the other side: whatever the limits, the
   format and the text. *)
THEOREM Logged == Spec => []FormattedIsLogged
BY LogInit, LogStep, PTL DEF Spec

-----------------------------------------------------------------------------
(* What is selected of a sequence. *)

(* Every place has a number of its own, and every number a place. *)
LEMMA AtIs ==
  ASSUME NEW n \in Nat, NEW S \in SUBSET (1..n)
  PROVE  /\ Cardinality(S) = Count(S, n) /\ Cardinality(S) \in Nat
         /\ \A k \in 1..Cardinality(S) : At(S, k) \in S /\ Count(S, At(S, k)) = k
         /\ \A i \in S : Count(S, i) \in 1..Cardinality(S) /\ At(S, Count(S, i)) = i
<1>1. Cardinality(S) = Count(S, n)
  <2>1. S \cap 1..n = S
    OBVIOUS
  <2>. QED BY <2>1 DEF Count
<1>2. Count(S, n) \in Nat /\ \A i \in S : Count(S, i) \in Nat
  <2>1. \A i \in S : i \in Nat
    OBVIOUS
  <2>. QED BY <2>1, CountType
<1>3. ASSUME NEW i \in S, NEW j \in S, i < j
      PROVE  Count(S, i) < Count(S, j)
  <2>1. j - i \in Nat \ {0} /\ i \in Nat /\ i + (j - i) = j
    BY <1>3
  <2>. DEFINE T == {m \in 1..(j - i) : i + m \in S}
  <2>2. Count(S, i + (j - i)) = Count(S, i) + Count(T, j - i)
    BY <2>1, CountShift
  <2>3. j - i \in T
    BY <2>1
  <2>4. Count(T, j - i) >= 1 /\ Count(T, j - i) \in Nat
    <3>. HIDE DEF T
    <3>. QED BY <2>1, <2>3, CountIn, CountType
  <2>. QED BY <1>2, <2>1, <2>2, <2>4
<1>4. ASSUME NEW i \in S, NEW j \in S, Count(S, i) = Count(S, j)
      PROVE  i = j
  <2>1. i \in Nat /\ j \in Nat
    OBVIOUS
  <2>. QED BY <1>2, <1>3, <1>4, <2>1
<1>5. ASSUME NEW i \in S
      PROVE  Count(S, i) \in 1..Count(S, n) /\ At(S, Count(S, i)) = i
  <2>1. i \in Nat \ {0} /\ i <= n
    OBVIOUS
  <2>2. Count(S, i) >= 1 /\ Count(S, i) <= Count(S, n)
    BY <2>1, CountIn, CountGrows
  <2>3. At(S, Count(S, i)) \in S /\ Count(S, At(S, Count(S, i))) = Count(S, i)
    BY DEF At
  <2>4. At(S, Count(S, i)) = i
    BY <1>4, <2>3
  <2>5. Count(S, i) \in 1..Count(S, n)
    BY <1>2, <2>2
  <2>. QED BY <2>4, <2>5
<1>6. ASSUME NEW k \in 1..Count(S, n)
      PROVE  \E i \in S : Count(S, i) = k
  <2>. DEFINE L == {i \in 0..n : Count(S, i) < k}
  <2>1. Count(S, 0) = 0
    BY CountNone
  <2>2. 0 \in L /\ L \in SUBSET (0..n)
    BY <1>2, <2>1
  <2>3. Max(L) \in L /\ \A i \in L : i <= Max(L)
    <3>. HIDE DEF L
    <3>. QED BY <2>2, MaxIsMost
  <2>. DEFINE m == Max(L)
  <2>4. m \in 0..n /\ Count(S, m) < k /\ \A i \in L : i <= m
    BY <2>3
  <2>. HIDE DEF m
  <2>5. m # n /\ m + 1 \in 1..n /\ m \in Nat
    BY <1>2, <2>4
  <2>6. ~(Count(S, m + 1) < k)
    <3>. HIDE DEF L
    <3>1. m + 1 \notin L
      BY <2>4, <2>5
    <3>. QED BY <2>5, <3>1 DEF L
  <2>. DEFINE T == {j \in 1..1 : m + j \in S}
  <2>7. Count(S, m + 1) = Count(S, m) + Count(T, 1)
    BY <2>5, CountShift
  <2>8. Count(S, m) \in Nat /\ Count(S, m + 1) \in Nat
    <3>1. m \in Nat /\ m + 1 \in Nat
      BY <2>5
    <3>. QED BY <3>1, CountType
  <2>9. Count(T, 1) \in 0..1 /\ (Count(T, 1) # 0 => 1 \in T)
    <3>1. CASE 1 \in T
      <4>. HIDE DEF T
      <4>. QED BY <3>1, CountFirst
    <3>2. CASE 1 \notin T
      <4>. HIDE DEF T
      <4>. QED BY <3>2, CountNone
    <3>. QED BY <3>1, <3>2
  <2>10. 1 \in T => m + 1 \in S
    OBVIOUS
  <2>. HIDE DEF T
  <2>11. Count(T, 1) = 1 /\ Count(S, m + 1) = k
    BY <2>4, <2>6, <2>7, <2>8, <2>9
  <2>12. m + 1 \in S
    BY <2>9, <2>10, <2>11
  <2>. QED BY <2>11, <2>12
<1>7. \A k \in 1..Count(S, n) : At(S, k) \in S /\ Count(S, At(S, k)) = k
  BY <1>6 DEF At
<1>. QED BY <1>1, <1>2, <1>5, <1>7

LEMMA SelectedIs ==
  ASSUME NEW X, NEW s \in Seq(X), NEW S \in SUBSET DOMAIN s
  PROVE  /\ Selected(s, S) \in Seq(X) /\ Len(Selected(s, S)) = Cardinality(S)
         /\ Cardinality(S) \in Nat
         /\ \A k \in 1..Cardinality(S) : \E i \in S : Selected(s, S)[k] = s[i]
         /\ \A i \in S : \E k \in 1..Cardinality(S) : Selected(s, S)[k] = s[i]
<1>1. Len(s) \in Nat /\ DOMAIN s = 1..Len(s) /\ \A i \in 1..Len(s) : s[i] \in X
  OBVIOUS
<1>2. /\ Cardinality(S) \in Nat
      /\ \A k \in 1..Cardinality(S) : At(S, k) \in S
      /\ \A i \in S : Count(S, i) \in 1..Cardinality(S) /\ At(S, Count(S, i)) = i
  BY <1>1, AtIs
<1>. DEFINE c == Cardinality(S)  t == [k \in 1..c |-> s[At(S, k)]]
<1>3. Selected(s, S) = t /\ c \in Nat
  BY <1>2 DEF Selected
<1>4. \A k \in 1..c : t[k] = s[At(S, k)] /\ t[k] \in X
  BY <1>1, <1>2
<1>. HIDE DEF c
<1>5. t \in Seq(X) /\ Len(t) = c
  BY <1>3, <1>4
<1>6. \A i \in S : Count(S, i) \in 1..c /\ At(S, Count(S, i)) = i
  BY <1>2 DEF c
<1>7. \A k \in 1..c : At(S, k) \in S
  BY <1>2 DEF c
<1>. HIDE DEF t
<1>8. \A k \in 1..c : \E i \in S : t[k] = s[i]
  BY <1>4, <1>7
<1>9. \A i \in S : \E k \in 1..c : t[k] = s[i]
  BY <1>4, <1>6
<1>. QED BY <1>3, <1>5, <1>8, <1>9 DEF c

(* Of a longer sequence the same is selected, and perhaps its last. *)
LEMMA SelectedLonger ==
  ASSUME NEW X, NEW s \in Seq(X), NEW x \in X, NEW S \in SUBSET DOMAIN s
  PROVE  LET n == Len(s) + 1
         IN  /\ Selected(Append(s, x), S) = Selected(s, S)
             /\ Selected(Append(s, x), S \cup {n}) = Append(Selected(s, S), x)
<1>. DEFINE l == Append(s, x)  n == Len(s) + 1  T == S \cup {n}
            c == Cardinality(S)
<1>1. /\ Len(s) \in Nat /\ DOMAIN s = 1..Len(s) /\ l \in Seq(X) /\ Len(l) = n
      /\ \A i \in 1..Len(s) : l[i] = s[i]
      /\ l[n] = x /\ DOMAIN l = 1..n /\ n \in Nat
  BY AppendProperties
<1>2. /\ c \in Nat
      /\ \A k \in 1..c : At(S, k) \in S
      /\ \A k \in 1..c : Count(S, At(S, k)) = k
  BY <1>1, AtIs
<1>3. Selected(l, S) = Selected(s, S)
  BY <1>1, <1>2 DEF Selected
<1>4. S \in SUBSET (1..n) /\ T \in SUBSET (1..n) /\ n \notin S
  BY <1>1
<1>5. Cardinality(T) = c + 1
  <2>1. IsFiniteSet(S)
    <3>1. IsFiniteSet(1..Len(s))
      BY <1>1, FS_Interval
    <3>. QED BY <1>1, <3>1, FS_Subset
  <2>. HIDE DEF n
  <2>. QED BY <1>4, <2>1, FS_AddElement
<1>6. /\ \A k \in 1..(c + 1) : At(T, k) \in T /\ Count(T, At(T, k)) = k
      /\ \A i \in T : At(T, Count(T, i)) = i
      /\ Count(T, n) = c + 1
  <2>. HIDE DEF T, c, n
  <2>. QED BY <1>1, <1>4, <1>5, AtIs
<1>. HIDE DEF c, l
<1>7. \A k \in 1..c : At(T, k) = At(S, k)
  <2>1. SUFFICES ASSUME NEW k \in 1..c
                 PROVE  At(T, k) = At(S, k)
    OBVIOUS
  <2>. DEFINE i == At(S, k)
  <2>2. i \in S /\ Count(S, i) = k
    BY <1>2
  <2>. HIDE DEF i
  <2>3. i \in 1..Len(s)
    BY <1>1, <2>2
  <2>4. T \cap 1..i = S \cap 1..i
    BY <1>1, <2>3
  <2>5. Count(T, i) = k
    BY <2>2, <2>4 DEF Count
  <2>. QED BY <1>6, <2>2, <2>5 DEF i
<1>8. At(T, c + 1) = n
  <2>1. n \in T
    OBVIOUS
  <2>. HIDE DEF T, n
  <2>. QED BY <1>6, <2>1
<1>. DEFINE a == Selected(s, S)
<1>9. a \in Seq(X) /\ Len(a) = c /\ a = [k \in 1..c |-> s[At(S, k)]]
  BY SelectedIs DEF Selected, c
<1>10. Selected(l, T) = [k \in 1..(c + 1) |-> l[At(T, k)]]
  BY <1>5 DEF Selected
<1>11. /\ Append(a, x) \in Seq(X) /\ Len(Append(a, x)) = c + 1 /\ Append(a, x)[c + 1] = x
       /\ \A k \in 1..c : Append(a, x)[k] = a[k]
  <2>1. a \in Seq(X) /\ Len(a) = c
    BY <1>9
  <2>. HIDE DEF a
  <2>. QED BY <1>2, <2>1, AppendProperties
<1>. HIDE DEF T, n
<1>12. ASSUME NEW k \in 1..(c + 1)
       PROVE  l[At(T, k)] = Append(a, x)[k]
  <2>1. CASE k = c + 1
    BY <1>1, <1>8, <1>11, <2>1
  <2>2. CASE k # c + 1
    <3>1. k \in 1..c
      BY <1>2, <2>2
    <3>2. At(S, k) \in 1..Len(s)
      BY <1>1, <1>2, <3>1
    <3>. HIDE DEF a
    <3>3. Append(a, x)[k] = s[At(S, k)]
      BY <1>9, <1>11, <3>1
    <3>4. l[At(T, k)] = s[At(S, k)]
      BY <1>1, <1>7, <3>1, <3>2
    <3>. QED BY <3>3, <3>4
  <2>. QED BY <2>1, <2>2
<1>13. Selected(l, T) \in Seq(X) /\ Len(Selected(l, T)) = c + 1
  BY <1>1, <1>4, <1>5, SelectedIs
<1>14. Selected(l, T) = Append(a, x)
  <2>1. \A k \in 1..(c + 1) : Selected(l, T)[k] = Append(a, x)[k]
    BY <1>10, <1>12
  <2>. HIDE DEF a
  <2>. QED BY <1>11, <1>13, <2>1, SeqEqual
<1>. QED BY <1>3, <1>14 DEF a, l, T, n

-----------------------------------------------------------------------------
(* The metadata record.  What each push makes of it. *)

Fields ==
  {"id", "url", "tags", "subsongs", "samples", "instruments", "subsong_count", "invalid_utf8",
   "empty_tag_key", "non_finite_number", "foreign_record_id", "truncation"}

IsRecord(r) == r = [f \in Fields |-> r[f]]

(* x is r, but for the fields named. *)
Same(x, r, changed) == IsRecord(x) /\ \A f \in Fields \ changed : x[f] = r[f]

LEMMA AcceptIs ==
  ASSUME NEW r, IsRecord(r), NEW decoded, NEW cut
  PROVE  LET x == accept(r, decoded, cut)
         IN  /\ Same(x, r, {"invalid_utf8", "truncation"})
             /\ x.invalid_utf8 <=> r.invalid_utf8 \/ decoded.invalid
             /\ x.truncation = IF decoded.truncated THEN r.truncation \cup {cut} ELSE r.truncation
BY Zenon DEF accept, Same, IsRecord, Fields

LEMMA NoteIs ==
  ASSUME NEW r, IsRecord(r), NEW id
  PROVE  LET x == note_id(r, id)
         IN  /\ Same(x, r, {"foreign_record_id"})
             /\ x.foreign_record_id <=> r.foreign_record_id \/ id # r.id
BY Zenon DEF note_id, Same, IsRecord, Fields

(* x is r with an entry more, or with a report that it was cut. *)
EntryAdded(x, r, list, cut, entry, cap) ==
  /\ Same(x, r, {list, "truncation"})
  /\ Len(r[list]) >= cap => x[list] = r[list] /\ x.truncation = r.truncation \cup {cut}
  /\ ~(Len(r[list]) >= cap) => x[list] = Append(r[list], entry) /\ x.truncation = r.truncation

LEMMA AddedIs ==
  ASSUME NEW r, IsRecord(r), NEW list \in Fields \ {"truncation"}, NEW cut, NEW entry, NEW cap
  PROVE  EntryAdded(Added(r, list, cut, entry, cap), r, list, cut, entry, cap)
BY Zenon DEF EntryAdded, Added, Same, IsRecord, Fields

LEMMA PushTagIs ==
  ASSUME NEW r, IsRecord(r), NEW key, NEW value
  PROVE  LET x == push_tag(r, key, value)
             unusable == value.kind = "Number" /\ value.number = "nan"
         IN  /\ Same(x, r, {"empty_tag_key", "non_finite_number", "tags", "truncation"})
             /\ x.empty_tag_key <=> r.empty_tag_key \/ key.text = <<>>
             /\ x.non_finite_number <=> r.non_finite_number \/ unusable
             /\ IF key.text = <<>> \/ unusable THEN x.tags = r.tags /\ x.truncation = r.truncation
                ELSE IF Len(r.tags) >= Limit["tags"]
                THEN x.tags = r.tags /\ x.truncation = r.truncation \cup {"tags"}
                ELSE /\ x.truncation = r.truncation
                     /\ x.tags = Append(r.tags, [key |-> TextOf(key), value |-> value])
<1>. DEFINE keyless == key.text = <<>>
            unusable == value.kind = "Number" /\ value.number = "nan"
            told == [r EXCEPT !.empty_tag_key = @ \/ keyless, !.non_finite_number = @ \/ unusable]
            entry == [key |-> TextOf(key), value |-> value]
            x == push_tag(r, key, value)
            added == Added(told, "tags", "tags", entry, Limit["tags"])
<1>1. x = IF keyless \/ unusable THEN told ELSE added
  BY Zenon DEF push_tag, is_finite
<1>. HIDE DEF keyless, unusable, entry, x
<1>2. /\ Same(told, r, {"empty_tag_key", "non_finite_number"})
      /\ told.empty_tag_key <=> r.empty_tag_key \/ keyless
      /\ told.non_finite_number <=> r.non_finite_number \/ unusable
  BY Zenon DEF Same, IsRecord, Fields
<1>. HIDE DEF told
<1>3. EntryAdded(added, told, "tags", "tags", entry, Limit["tags"])
  <2>1. IsRecord(told) /\ "tags" \in Fields \ {"truncation"}
    BY <1>2 DEF Same, Fields
  <2>. QED BY <2>1, AddedIs
<1>4. told.tags = r.tags /\ told.truncation = r.truncation
  BY <1>2 DEF Same, Fields
<1>. HIDE DEF added
<1>5. CASE keyless \/ unusable
  <2>1. Same(x, r, {"empty_tag_key", "non_finite_number", "tags", "truncation"})
    BY <1>1, <1>2, <1>5 DEF Same
  <2>. QED BY <1>1, <1>2, <1>4, <1>5, <2>1 DEF x, keyless, unusable
<1>6. CASE ~(keyless \/ unusable)
  <2>1. /\ Same(x, told, {"tags", "truncation"})
        /\ Len(told.tags) >= Limit["tags"] =>
             x.tags = told.tags /\ x.truncation = told.truncation \cup {"tags"}
        /\ ~(Len(told.tags) >= Limit["tags"]) =>
             x.tags = Append(told.tags, entry) /\ x.truncation = told.truncation
    BY <1>1, <1>3, <1>6 DEF EntryAdded
  <2>2. Same(x, r, {"empty_tag_key", "non_finite_number", "tags", "truncation"})
    BY <1>2, <2>1 DEF Same
  <2>3. x.empty_tag_key = told.empty_tag_key /\ x.non_finite_number = told.non_finite_number
    BY <2>1 DEF Same, Fields
  <2>. QED BY <1>2, <1>4, <1>6, <2>1, <2>2, <2>3 DEF x, keyless, unusable, entry
<1>. QED BY <1>5, <1>6

Sent(s, l) == Decoded[s, l]

LEMMA CreateUrlIs ==
  ASSUME NEW r, IsRecord(r), NEW value, NEW url, url = Sent(value, "url")
  PROVE  LET x == create_url(r, value)
         IN  /\ Same(x, r, {"invalid_utf8", "truncation", "url"})
             /\ x.invalid_utf8 <=> r.invalid_utf8 \/ url.invalid
             /\ x.truncation = IF url.truncated THEN r.truncation \cup {"url"} ELSE r.truncation
             /\ x.url = IF r.url.text = <<>> THEN TextOf(url) ELSE r.url
BY Zenon DEF create_url, accept, Sent, Same, IsRecord, Fields

(* A record told of a tag's strings, before the tag is pushed. *)
TagNoted(r, id, key, value, v, x) ==
  \E y : /\ Same(y, r, {"invalid_utf8", "truncation", "foreign_record_id"})
         /\ y.foreign_record_id <=> r.foreign_record_id \/ id # r.id
         /\ y.invalid_utf8 <=> r.invalid_utf8 \/ key.invalid \/ value.invalid
         /\ \A c : c \in y.truncation <=>
              c \in r.truncation \/ (key.truncated /\ c = "tag_key")
                                 \/ (value.truncated /\ c = "tag_value")
         /\ x = push_tag(y, key, v)

KeyNoted(r, id, key, v, x) ==
  \E y : /\ Same(y, r, {"invalid_utf8", "truncation", "foreign_record_id"})
         /\ y.foreign_record_id <=> r.foreign_record_id \/ id # r.id
         /\ y.invalid_utf8 <=> r.invalid_utf8 \/ key.invalid
         /\ \A c : c \in y.truncation <=> c \in r.truncation \/ (key.truncated /\ c = "tag_key")
         /\ x = push_tag(y, key, v)

LEMMA SetTagIs ==
  ASSUME NEW r, IsRecord(r), NEW id, NEW tag, NEW data, NEW key, NEW value,
         key = Sent(tag, "tag_key"), value = Sent(data, "tag_value")
  PROVE  TagNoted(r, id, key, value, [kind |-> "Text", text |-> TextOf(value)],
                  set_tag(r, id, tag, data))
<1>. DEFINE n == note_id(r, id)  a == accept(n, key, "tag_key")  y == accept(a, value, "tag_value")
<1>1. Same(n, r, {"foreign_record_id"}) /\ (n.foreign_record_id <=> r.foreign_record_id \/ id # r.id)
  BY NoteIs
<1>2. /\ Same(a, n, {"invalid_utf8", "truncation"})
      /\ a.invalid_utf8 <=> n.invalid_utf8 \/ key.invalid
      /\ a.truncation = IF key.truncated THEN n.truncation \cup {"tag_key"} ELSE n.truncation
  <2>. HIDE DEF n
  <2>1. IsRecord(n)
    BY <1>1 DEF Same
  <2>. QED BY <2>1, AcceptIs
<1>3. /\ Same(y, a, {"invalid_utf8", "truncation"})
      /\ y.invalid_utf8 <=> a.invalid_utf8 \/ value.invalid
      /\ y.truncation = IF value.truncated THEN a.truncation \cup {"tag_value"} ELSE a.truncation
  <2>. HIDE DEF a
  <2>1. IsRecord(a)
    BY <1>2 DEF Same
  <2>. QED BY <2>1, AcceptIs
<1>4. set_tag(r, id, tag, data) = push_tag(y, key, [kind |-> "Text", text |-> TextOf(value)])
  BY Zenon DEF set_tag, Sent
<1>. HIDE DEF y, a, n
<1>5. Same(y, r, {"invalid_utf8", "truncation", "foreign_record_id"})
  BY <1>1, <1>2, <1>3, Zenon DEF Same
<1>6. y.foreign_record_id = n.foreign_record_id /\ n.invalid_utf8 = r.invalid_utf8 /\ n.truncation = r.truncation
  BY <1>1, <1>2, <1>3, Zenon DEF Same, Fields
<1>. QED BY <1>1, <1>2, <1>3, <1>4, <1>5, <1>6, Zenon DEF TagNoted

LEMMA SetTagNumberIs ==
  ASSUME NEW r, IsRecord(r), NEW id, NEW tag, NEW number, NEW key, key = Sent(tag, "tag_key")
  PROVE  KeyNoted(r, id, key, [kind |-> "Number", number |-> number],
                  set_tag_f64(r, id, tag, number))
<1>. DEFINE n == note_id(r, id)  y == accept(n, key, "tag_key")
<1>1. Same(n, r, {"foreign_record_id"}) /\ (n.foreign_record_id <=> r.foreign_record_id \/ id # r.id)
  BY NoteIs
<1>2. /\ Same(y, n, {"invalid_utf8", "truncation"})
      /\ y.invalid_utf8 <=> n.invalid_utf8 \/ key.invalid
      /\ y.truncation = IF key.truncated THEN n.truncation \cup {"tag_key"} ELSE n.truncation
  <2>. HIDE DEF n
  <2>1. IsRecord(n)
    BY <1>1 DEF Same
  <2>. QED BY <2>1, AcceptIs
<1>3. set_tag_f64(r, id, tag, number) = push_tag(y, key, [kind |-> "Number", number |-> number])
  BY Zenon DEF set_tag_f64, Sent
<1>. HIDE DEF y, n
<1>4. Same(y, r, {"invalid_utf8", "truncation", "foreign_record_id"})
  BY <1>1, <1>2, Zenon DEF Same
<1>5. y.foreign_record_id = n.foreign_record_id /\ n.invalid_utf8 = r.invalid_utf8 /\ n.truncation = r.truncation
  BY <1>1, <1>2, Zenon DEF Same, Fields
<1>. QED BY <1>1, <1>2, <1>3, <1>4, <1>5, Zenon DEF KeyNoted

LEMMA NamedIs ==
  ASSUME NEW r, IsRecord(r), NEW id, NEW text
  PROVE  LET y == accept(note_id(r, id), text, "name")
         IN  /\ Same(y, r, {"invalid_utf8", "truncation", "foreign_record_id"})
             /\ y.foreign_record_id <=> r.foreign_record_id \/ id # r.id
             /\ y.invalid_utf8 <=> r.invalid_utf8 \/ text.invalid
             /\ \A c : c \in y.truncation <=> c \in r.truncation \/ (text.truncated /\ c = "name")
<1>. DEFINE n == note_id(r, id)  y == accept(n, text, "name")
<1>1. Same(n, r, {"foreign_record_id"}) /\ (n.foreign_record_id <=> r.foreign_record_id \/ id # r.id)
  BY NoteIs
<1>2. /\ Same(y, n, {"invalid_utf8", "truncation"})
      /\ y.invalid_utf8 <=> n.invalid_utf8 \/ text.invalid
      /\ y.truncation = IF text.truncated THEN n.truncation \cup {"name"} ELSE n.truncation
  <2>. HIDE DEF n
  <2>1. IsRecord(n)
    BY <1>1 DEF Same
  <2>. QED BY <2>1, AcceptIs
<1>. HIDE DEF y, n
<1>4. Same(y, r, {"invalid_utf8", "truncation", "foreign_record_id"})
  BY <1>1, <1>2, Zenon DEF Same
<1>5. y.foreign_record_id = n.foreign_record_id /\ n.invalid_utf8 = r.invalid_utf8 /\ n.truncation = r.truncation
  BY <1>1, <1>2, Zenon DEF Same, Fields
<1>6. /\ y.foreign_record_id <=> r.foreign_record_id \/ id # r.id
      /\ y.invalid_utf8 <=> r.invalid_utf8 \/ text.invalid
  BY <1>1, <1>2, <1>5, Zenon
<1>7. \A c : c \in y.truncation <=> c \in r.truncation \/ (text.truncated /\ c = "name")
  BY <1>2, <1>5
<1>. QED BY <1>4, <1>6, <1>7, Zenon DEF y, n

(* Names and subsongs: the entry, if there is room. *)
LEMMA AddNameIs ==
  ASSUME NEW r, IsRecord(r), NEW id, NEW value, NEW kind \in {"samples", "instruments"},
         NEW text, text = Sent(value, "name")
  PROVE  add_name(r, id, value, kind) =
           Added(accept(note_id(r, id), text, "name"), kind, kind, TextOf(text), Limit["names"])
BY Zenon DEF add_name, Sent

LEMMA AddSubsongIs ==
  ASSUME NEW r, IsRecord(r), NEW id, NEW index, NEW value, NEW length,
         NEW name, name = Sent(value, "name"), NEW entry,
         entry = [index |-> index, name |-> TextOf(name),
                  length_seconds |-> IF length = "positive" THEN length ELSE "none"]
  PROVE  \E told :
           /\ Same(told, accept(note_id(r, id), name, "name"), {"non_finite_number"})
           /\ told.non_finite_number <=>
                accept(note_id(r, id), name, "name").non_finite_number \/ length = "nan"
           /\ add_subsong(r, id, index, value, length) =
                Added(told, "subsongs", "subsongs", entry, Limit["subsongs"])
<1>. DEFINE y == accept(note_id(r, id), name, "name")
            told == [y EXCEPT !.non_finite_number = @ \/ ~is_finite(length)]
<1>1. IsRecord(y)
  BY NamedIs DEF Same
<1>2. add_subsong(r, id, index, value, length) =
        Added(told, "subsongs", "subsongs", entry, Limit["subsongs"])
  BY Zenon DEF add_subsong, Sent
<1>. HIDE DEF y
<1>3. /\ Same(told, y, {"non_finite_number"})
      /\ told.non_finite_number <=> y.non_finite_number \/ length = "nan"
  BY <1>1, Zenon DEF Same, IsRecord, Fields, is_finite
<1>. HIDE DEF told
<1>. QED BY <1>2, <1>3, Zenon DEF y

Invalid(p) == \E s \in StringsOf(p) : s[1].invalid
CutOf(p, kind) == \E s \in StringsOf(p) : s[1].truncated /\ s[2] = kind

LEMMA OneString ==
  ASSUME NEW p, NEW a, NEW k, StringsOf(p) = {<<a, k>>}
  PROVE  /\ Invalid(p) <=> a.invalid
         /\ \A kind : CutOf(p, kind) <=> a.truncated /\ kind = k
BY DEF Invalid, CutOf

LEMMA TagTells ==
  ASSUME NEW p, p.call = "set_tag"
  PROVE  /\ Invalid(p) <=> Sent(p.tag, "tag_key").invalid \/ Sent(p.data, "tag_value").invalid
         /\ \A kind : CutOf(p, kind) <=> (Sent(p.tag, "tag_key").truncated /\ kind = "tag_key")
                                         \/ (Sent(p.data, "tag_value").truncated /\ kind = "tag_value")
<1>. DEFINE key == Sent(p.tag, "tag_key")  value == Sent(p.data, "tag_value")
<1>1. StringsOf(p) = {<<key, "tag_key">>, <<value, "tag_value">>}
  BY Zenon DEF StringsOf, Sent
<1>. HIDE DEF key, value
<1>2. /\ Invalid(p) <=> key.invalid \/ value.invalid
      /\ \A kind : CutOf(p, kind) <=> (key.truncated /\ kind = "tag_key")
                                      \/ (value.truncated /\ kind = "tag_value")
  BY <1>1 DEF Invalid, CutOf
<1>. QED BY <1>2 DEF key, value

LEMMA TagNumberTells ==
  ASSUME NEW p, p.call = "set_tag_f64"
  PROVE  /\ Invalid(p) <=> Sent(p.tag, "tag_key").invalid
         /\ \A kind : CutOf(p, kind) <=> Sent(p.tag, "tag_key").truncated /\ kind = "tag_key"
<1>. DEFINE sent == Sent(p.tag, "tag_key")
<1>1. StringsOf(p) = {<<sent, "tag_key">>}
  BY Zenon DEF StringsOf, Sent
<1>. HIDE DEF sent
<1>2. /\ Invalid(p) <=> sent.invalid
      /\ \A kind : CutOf(p, kind) <=> sent.truncated /\ kind = "tag_key"
  BY <1>1, OneString
<1>. QED BY <1>2 DEF sent

LEMMA UrlTells ==
  ASSUME NEW p, p.call = "create_url"
  PROVE  /\ Invalid(p) <=> Sent(p.text, "url").invalid
         /\ \A kind : CutOf(p, kind) <=> Sent(p.text, "url").truncated /\ kind = "url"
<1>. DEFINE sent == Sent(p.text, "url")
<1>1. StringsOf(p) = {<<sent, "url">>}
  BY Zenon DEF StringsOf, Sent
<1>. HIDE DEF sent
<1>2. /\ Invalid(p) <=> sent.invalid
      /\ \A kind : CutOf(p, kind) <=> sent.truncated /\ kind = "url"
  BY <1>1, OneString
<1>. QED BY <1>2 DEF sent

LEMMA NameTells ==
  ASSUME NEW p, p.call \in {"add_subsong", "samples", "instruments"}
  PROVE  /\ Invalid(p) <=> Sent(p.text, "name").invalid
         /\ \A kind : CutOf(p, kind) <=> Sent(p.text, "name").truncated /\ kind = "name"
<1>. DEFINE sent == Sent(p.text, "name")
<1>1. StringsOf(p) = {<<sent, "name">>}
  BY Zenon DEF StringsOf, Sent
<1>. HIDE DEF sent
<1>2. /\ Invalid(p) <=> sent.invalid
      /\ \A kind : CutOf(p, kind) <=> sent.truncated /\ kind = "name"
  BY <1>1, OneString
<1>. QED BY <1>2 DEF sent

(* What the entry of a push is, by its strings. *)
LEMMA TagEntry ==
  ASSUME NEW p, NEW key, key = Sent(p.tag, "tag_key")
  PROVE  /\ p.call = "set_tag" => EntryOf(p) = [key |-> TextOf(key),
              value |-> [kind |-> "Text", text |-> TextOf(Sent(p.data, "tag_value"))]]
         /\ p.call = "set_tag_f64" => EntryOf(p) = [key |-> TextOf(key),
              value |-> [kind |-> "Number", number |-> p.number]]
BY Zenon DEF EntryOf, Sent

LEMMA UrlEntry ==
  ASSUME NEW p, p.call = "create_url"
  PROVE  EntryOf(p) = TextOf(Sent(p.text, "url"))
BY Zenon DEF EntryOf, Sent

LEMMA NameEntry ==
  ASSUME NEW p, NEW name, name = Sent(p.text, "name")
  PROVE  /\ p.call = "add_subsong" => EntryOf(p) = [index |-> p.index, name |-> TextOf(name),
              length_seconds |-> IF p.length = "positive" THEN p.length ELSE "none"]
         /\ p.call \in {"samples", "instruments"} => EntryOf(p) = TextOf(name)
BY Zenon DEF EntryOf, Sent

(* A list with a cap is longer by an entry, if there is room for it. *)
Grows(r, x, list, more, entry, cap) ==
  x[list] = IF more /\ ~(Len(r[list]) >= cap) THEN Append(r[list], entry) ELSE r[list]

(* What a push leaves in the record, by what it says: in its flags, in what it
   reports as cut, and in its lists. *)
FlagsTold(r, x, p) ==
  /\ x.invalid_utf8 <=> r.invalid_utf8 \/ Invalid(p)
  /\ x.empty_tag_key <=> r.empty_tag_key \/ Keyless(p)
  /\ x.non_finite_number <=> r.non_finite_number \/ NotFinite(p)
  /\ x.foreign_record_id <=> r.foreign_record_id \/ (p.call # "create_url" /\ ~p.own)

CutsTold(r, x, p) ==
  \A cut : cut \in x.truncation <=>
    \/ cut \in r.truncation
    \/ CutOf(p, cut)
    \/ cut = "tags" /\ KeptTag(p) /\ Len(r.tags) >= Limit["tags"]
    \/ cut = "samples" /\ p.call = "samples" /\ Len(r.samples) >= Limit["names"]
    \/ cut = "instruments" /\ p.call = "instruments" /\ Len(r.instruments) >= Limit["names"]
    \/ cut = "subsongs" /\ p.call = "add_subsong" /\ Len(r.subsongs) >= Limit["subsongs"]

Told(r, x, p) ==
  /\ IsRecord(x) /\ x.id = r.id /\ x.subsong_count = r.subsong_count
  /\ x.url = IF p.call = "create_url" /\ r.url.text = <<>> THEN EntryOf(p) ELSE r.url
  /\ Grows(r, x, "tags", KeptTag(p), EntryOf(p), Limit["tags"])
  /\ Grows(r, x, "samples", p.call = "samples", EntryOf(p), Limit["names"])
  /\ Grows(r, x, "instruments", p.call = "instruments", EntryOf(p), Limit["names"])
  /\ Grows(r, x, "subsongs", p.call = "add_subsong", EntryOf(p), Limit["subsongs"])
  /\ FlagsTold(r, x, p) /\ CutsTold(r, x, p)

(* The id a push is made under is the record's exactly when it is its own. *)
LEMMA OwnIs ==
  ASSUME NEW r, r.id \in Int, NEW p
  PROVE  (IF p.own THEN r.id ELSE r.id - 1) # r.id <=> ~p.own
OBVIOUS

LEMMA UrlTold ==
  ASSUME NEW r, IsRecord(r), NEW p, p.call = "create_url"
  PROVE  Told(r, create_url(r, p.text), p)
<1>. DEFINE x == create_url(r, p.text)  url == Sent(p.text, "url")
<1>1. /\ Same(x, r, {"invalid_utf8", "truncation", "url"})
      /\ x.invalid_utf8 <=> r.invalid_utf8 \/ url.invalid
      /\ x.truncation = IF url.truncated THEN r.truncation \cup {"url"} ELSE r.truncation
      /\ x.url = IF r.url.text = <<>> THEN TextOf(url) ELSE r.url
  BY CreateUrlIs
<1>2. /\ Invalid(p) <=> url.invalid
      /\ \A kind : CutOf(p, kind) <=> url.truncated /\ kind = "url"
  BY UrlTells
<1>3. ~KeptTag(p) /\ ~Keyless(p) /\ ~NotFinite(p)
  BY DEF KeptTag, Keyless, NotFinite, IsTag
<1>. HIDE DEF x, url
<1>4. /\ IsRecord(x) /\ x.id = r.id /\ x.subsong_count = r.subsong_count /\ x.tags = r.tags
      /\ x.samples = r.samples /\ x.instruments = r.instruments /\ x.subsongs = r.subsongs
      /\ x.empty_tag_key = r.empty_tag_key /\ x.non_finite_number = r.non_finite_number
      /\ x.foreign_record_id = r.foreign_record_id
  BY <1>1 DEF Same, Fields
<1>5. x.url = IF p.call = "create_url" /\ r.url.text = <<>> THEN EntryOf(p) ELSE r.url
  BY <1>1, UrlEntry, Zenon DEF url
<1>6. \A cut : cut \in x.truncation <=> cut \in r.truncation \/ CutOf(p, cut)
  BY <1>1, <1>2
<1>7. FlagsTold(r, x, p)
  BY <1>1, <1>2, <1>3, <1>4 DEF FlagsTold
<1>8. CutsTold(r, x, p)
  BY <1>3, <1>6 DEF CutsTold
<1>9. /\ Grows(r, x, "tags", KeptTag(p), EntryOf(p), Limit["tags"])
      /\ Grows(r, x, "samples", p.call = "samples", EntryOf(p), Limit["names"])
      /\ Grows(r, x, "instruments", p.call = "instruments", EntryOf(p), Limit["names"])
      /\ Grows(r, x, "subsongs", p.call = "add_subsong", EntryOf(p), Limit["subsongs"])
  BY <1>3, <1>4 DEF Grows
<1>. QED BY <1>4, <1>5, <1>7, <1>8, <1>9 DEF Told, x

LEMMA TagIs ==
  ASSUME NEW p, p.call \in {"set_tag", "set_tag_f64"}, NEW key, key = Sent(p.tag, "tag_key")
  PROVE  /\ Keyless(p) <=> key.text = <<>>
         /\ KeptTag(p) <=> key.text # <<>> /\ ~NotFinite(p)
<1>1. Keyless(p) <=> IsTag(p) /\ key.text = <<>>
  BY Zenon DEF Keyless, Sent
<1>2. IsTag(p)
  BY DEF IsTag
<1>. QED BY <1>1, <1>2 DEF KeptTag

LEMMA TaggedTold ==
  ASSUME NEW r, IsRecord(r), NEW p, p.call \in {"set_tag", "set_tag_f64"},
         NEW key, key = Sent(p.tag, "tag_key"), NEW value,
         (value.kind = "Number" /\ value.number = "nan") <=> NotFinite(p),
         EntryOf(p) = [key |-> TextOf(key), value |-> value],
         NEW y, Same(y, r, {"invalid_utf8", "truncation", "foreign_record_id"}),
         y.foreign_record_id <=> r.foreign_record_id \/ ~p.own,
         y.invalid_utf8 <=> r.invalid_utf8 \/ Invalid(p),
         \A c : c \in y.truncation <=> c \in r.truncation \/ CutOf(p, c)
  PROVE  Told(r, push_tag(y, key, value), p)
<1>. DEFINE x == push_tag(y, key, value)
            unusable == value.kind = "Number" /\ value.number = "nan"
<1>0. IsRecord(y)
  BY DEF Same
<1>1. /\ Same(x, y, {"empty_tag_key", "non_finite_number", "tags", "truncation"})
      /\ x.empty_tag_key <=> y.empty_tag_key \/ key.text = <<>>
      /\ x.non_finite_number <=> y.non_finite_number \/ unusable
      /\ IF key.text = <<>> \/ unusable THEN x.tags = y.tags /\ x.truncation = y.truncation
         ELSE IF Len(y.tags) >= Limit["tags"]
         THEN x.tags = y.tags /\ x.truncation = y.truncation \cup {"tags"}
         ELSE /\ x.truncation = y.truncation
              /\ x.tags = Append(y.tags, [key |-> TextOf(key), value |-> value])
  BY <1>0, PushTagIs
<1>2. (Keyless(p) <=> key.text = <<>>) /\ (KeptTag(p) <=> key.text # <<>> /\ ~NotFinite(p))
  BY TagIs
<1>3. p.call \notin {"create_url", "samples", "instruments", "add_subsong"}
  OBVIOUS
<1>. HIDE DEF x
<1>4. /\ y.id = r.id /\ y.subsong_count = r.subsong_count /\ y.tags = r.tags /\ y.url = r.url
      /\ y.samples = r.samples /\ y.instruments = r.instruments /\ y.subsongs = r.subsongs
      /\ y.empty_tag_key = r.empty_tag_key /\ y.non_finite_number = r.non_finite_number
  BY DEF Same, Fields
<1>5. /\ IsRecord(x) /\ x.id = y.id /\ x.subsong_count = y.subsong_count /\ x.url = y.url
      /\ x.samples = y.samples /\ x.instruments = y.instruments /\ x.subsongs = y.subsongs
      /\ x.invalid_utf8 = y.invalid_utf8 /\ x.foreign_record_id = y.foreign_record_id
  BY <1>1 DEF Same, Fields
<1>6. Grows(r, x, "tags", KeptTag(p), EntryOf(p), Limit["tags"])
  <2>. DEFINE e == [key |-> TextOf(key), value |-> value]
  <2>1. EntryOf(p) = e
    OBVIOUS
  <2>. HIDE DEF e
  <2>2. KeptTag(p) <=> ~(key.text = <<>> \/ unusable)
    BY <1>2
  <2>. HIDE DEF unusable
  <2>3. x.tags = IF KeptTag(p) /\ ~(Len(r.tags) >= Limit["tags"]) THEN Append(r.tags, e)
                 ELSE r.tags
    BY <1>1, <1>4, <2>2, Zenon DEF e
  <2>. QED BY <2>1, <2>3, Zenon DEF Grows
<1>7. \A cut : cut \in x.truncation <=>
        \/ cut \in r.truncation
        \/ CutOf(p, cut)
        \/ cut = "tags" /\ KeptTag(p) /\ Len(r.tags) >= Limit["tags"]
  <2>1. x.truncation = IF KeptTag(p) /\ Len(r.tags) >= Limit["tags"] THEN y.truncation \cup {"tags"}
                       ELSE y.truncation
    BY <1>1, <1>2, <1>4
  <2>. QED BY <2>1
<1>8. FlagsTold(r, x, p)
  BY <1>1, <1>2, <1>3, <1>4, <1>5 DEF FlagsTold
<1>9. CutsTold(r, x, p)
  BY <1>3, <1>7 DEF CutsTold
<1>10. /\ Grows(r, x, "samples", p.call = "samples", EntryOf(p), Limit["names"])
       /\ Grows(r, x, "instruments", p.call = "instruments", EntryOf(p), Limit["names"])
       /\ Grows(r, x, "subsongs", p.call = "add_subsong", EntryOf(p), Limit["subsongs"])
  BY <1>3, <1>4, <1>5 DEF Grows
<1>11. x.url = IF p.call = "create_url" /\ r.url.text = <<>> THEN EntryOf(p) ELSE r.url
  BY <1>3, <1>4, <1>5
<1>. QED BY <1>4, <1>5, <1>6, <1>8, <1>9, <1>10, <1>11, Zenon DEF Told, x

LEMMA SetTagTold ==
  ASSUME NEW r, IsRecord(r), r.id \in Int, NEW p, p.call = "set_tag"
  PROVE  Told(r, set_tag(r, IF p.own THEN r.id ELSE r.id - 1, p.tag, p.data), p)
<1>. DEFINE id == IF p.own THEN r.id ELSE r.id - 1
            key == Sent(p.tag, "tag_key")  value == Sent(p.data, "tag_value")
            v == [kind |-> "Text", text |-> TextOf(value)]
<1>1. PICK y : /\ Same(y, r, {"invalid_utf8", "truncation", "foreign_record_id"})
               /\ y.foreign_record_id <=> r.foreign_record_id \/ id # r.id
               /\ y.invalid_utf8 <=> r.invalid_utf8 \/ key.invalid \/ value.invalid
               /\ \A c : c \in y.truncation <=>
                    c \in r.truncation \/ (key.truncated /\ c = "tag_key")
                                       \/ (value.truncated /\ c = "tag_value")
               /\ set_tag(r, id, p.tag, p.data) = push_tag(y, key, v)
  <2>1. TagNoted(r, id, key, value, v, set_tag(r, id, p.tag, p.data))
    BY SetTagIs
  <2>. QED BY <2>1, Zenon DEF TagNoted
<1>2. id # r.id <=> ~p.own
  BY OwnIs
<1>3. ~(v.kind = "Number" /\ v.number = "nan") /\ ~NotFinite(p)
  BY DEF NotFinite
<1>8. EntryOf(p) = [key |-> TextOf(key), value |-> v]
  BY TagEntry, Zenon
<1>. HIDE DEF id, v
<1>4. /\ Invalid(p) <=> key.invalid \/ value.invalid
      /\ \A kind : CutOf(p, kind) <=> (key.truncated /\ kind = "tag_key")
                                      \/ (value.truncated /\ kind = "tag_value")
  BY TagTells
<1>5. /\ y.foreign_record_id <=> r.foreign_record_id \/ ~p.own
      /\ y.invalid_utf8 <=> r.invalid_utf8 \/ Invalid(p)
  BY <1>1, <1>2, <1>4
<1>6. \A c : c \in y.truncation <=> c \in r.truncation \/ CutOf(p, c)
  BY <1>1, <1>4
<1>. HIDE DEF key, value
<1>7. Told(r, push_tag(y, key, v), p)
  <2>1. key = Sent(p.tag, "tag_key")
    BY DEF key
  <2>. QED BY <1>1, <1>3, <1>5, <1>6, <1>8, <2>1, TaggedTold
<1>. QED BY <1>1, <1>7 DEF id

LEMMA SetTagNumberTold ==
  ASSUME NEW r, IsRecord(r), r.id \in Int, NEW p, p.call = "set_tag_f64"
  PROVE  Told(r, set_tag_f64(r, IF p.own THEN r.id ELSE r.id - 1, p.tag, p.number), p)
<1>. DEFINE id == IF p.own THEN r.id ELSE r.id - 1
            key == Sent(p.tag, "tag_key")
            v == [kind |-> "Number", number |-> p.number]
<1>1. PICK y : /\ Same(y, r, {"invalid_utf8", "truncation", "foreign_record_id"})
               /\ y.foreign_record_id <=> r.foreign_record_id \/ id # r.id
               /\ y.invalid_utf8 <=> r.invalid_utf8 \/ key.invalid
               /\ \A c : c \in y.truncation <=> c \in r.truncation \/ (key.truncated /\ c = "tag_key")
               /\ set_tag_f64(r, id, p.tag, p.number) = push_tag(y, key, v)
  <2>1. KeyNoted(r, id, key, v, set_tag_f64(r, id, p.tag, p.number))
    BY SetTagNumberIs
  <2>. QED BY <2>1, Zenon DEF KeyNoted
<1>2. id # r.id <=> ~p.own
  BY OwnIs
<1>3. (v.kind = "Number" /\ v.number = "nan") <=> NotFinite(p)
  BY DEF NotFinite
<1>8. EntryOf(p) = [key |-> TextOf(key), value |-> v]
  BY TagEntry, Zenon
<1>. HIDE DEF id, v
<1>4. /\ Invalid(p) <=> key.invalid
      /\ \A kind : CutOf(p, kind) <=> key.truncated /\ kind = "tag_key"
  BY TagNumberTells
<1>5. /\ y.foreign_record_id <=> r.foreign_record_id \/ ~p.own
      /\ y.invalid_utf8 <=> r.invalid_utf8 \/ Invalid(p)
  BY <1>1, <1>2, <1>4
<1>6. \A c : c \in y.truncation <=> c \in r.truncation \/ CutOf(p, c)
  BY <1>1, <1>4
<1>. HIDE DEF key
<1>7. Told(r, push_tag(y, key, v), p)
  <2>1. key = Sent(p.tag, "tag_key")
    BY DEF key
  <2>. QED BY <1>1, <1>3, <1>5, <1>6, <1>8, <2>1, TaggedTold
<1>. QED BY <1>1, <1>7 DEF id

(* Names and subsongs, of which the name was noted. *)
LEMMA NameNoted ==
  ASSUME NEW r, IsRecord(r), r.id \in Int, NEW p,
         p.call \in {"samples", "instruments", "add_subsong"}
  PROVE  LET y == accept(note_id(r, IF p.own THEN r.id ELSE r.id - 1), Sent(p.text, "name"), "name")
         IN  /\ Same(y, r, {"invalid_utf8", "truncation", "foreign_record_id"})
             /\ y.foreign_record_id <=> r.foreign_record_id \/ ~p.own
             /\ y.invalid_utf8 <=> r.invalid_utf8 \/ Invalid(p)
             /\ \A c : c \in y.truncation <=> c \in r.truncation \/ CutOf(p, c)
<1>. DEFINE id == IF p.own THEN r.id ELSE r.id - 1
            text == Sent(p.text, "name")  y == accept(note_id(r, id), text, "name")
<1>1. id # r.id <=> ~p.own
  BY OwnIs
<1>. HIDE DEF id
<1>2. /\ Same(y, r, {"invalid_utf8", "truncation", "foreign_record_id"})
      /\ y.foreign_record_id <=> r.foreign_record_id \/ id # r.id
      /\ y.invalid_utf8 <=> r.invalid_utf8 \/ text.invalid
      /\ \A c : c \in y.truncation <=> c \in r.truncation \/ (text.truncated /\ c = "name")
  <2>. HIDE DEF text
  <2>. QED BY NamedIs
<1>3. /\ Invalid(p) <=> text.invalid
      /\ \A kind : CutOf(p, kind) <=> text.truncated /\ kind = "name"
  BY NameTells
<1>. HIDE DEF y, text
<1>4. \A c : c \in y.truncation <=> c \in r.truncation \/ CutOf(p, c)
  BY <1>2, <1>3
<1>5. /\ y.foreign_record_id <=> r.foreign_record_id \/ ~p.own
      /\ y.invalid_utf8 <=> r.invalid_utf8 \/ Invalid(p)
  BY <1>1, <1>2, <1>3
<1>. QED BY <1>2, <1>4, <1>5 DEF y, text, id

(* An entry for the list a push is for, of a record told of the rest. *)
LEMMA AddedTold ==
  ASSUME NEW r, IsRecord(r), NEW p, p.call \in {"samples", "instruments", "add_subsong"},
         NEW list, list = IF p.call = "add_subsong" THEN "subsongs" ELSE p.call,
         NEW cap, cap = IF p.call = "add_subsong" THEN Limit["subsongs"] ELSE Limit["names"],
         NEW entry, entry = EntryOf(p), NEW y,
         Same(y, r, {"invalid_utf8", "truncation", "foreign_record_id", "non_finite_number"}),
         y.foreign_record_id <=> r.foreign_record_id \/ ~p.own,
         y.invalid_utf8 <=> r.invalid_utf8 \/ Invalid(p),
         y.non_finite_number <=> r.non_finite_number \/ NotFinite(p),
         \A c : c \in y.truncation <=> c \in r.truncation \/ CutOf(p, c)
  PROVE  Told(r, Added(y, list, list, entry, cap), p)
<1>. DEFINE x == Added(y, list, list, entry, cap)
<1>0. IsRecord(y) /\ list \in {"subsongs", "samples", "instruments"}
  BY DEF Same
<1>1. /\ Same(x, y, {list, "truncation"})
      /\ Len(y[list]) >= cap => x[list] = y[list] /\ x.truncation = y.truncation \cup {list}
      /\ ~(Len(y[list]) >= cap) => x[list] = Append(y[list], entry) /\ x.truncation = y.truncation
  <2>1. list \in Fields \ {"truncation"}
    BY <1>0 DEF Fields
  <2>2. EntryAdded(x, y, list, list, entry, cap)
    BY <1>0, <2>1, AddedIs
  <2>. HIDE DEF x
  <2>. QED BY <2>2, Zenon DEF EntryAdded
<1>2. ~KeptTag(p) /\ ~Keyless(p)
  BY DEF KeptTag, Keyless, IsTag
<1>. HIDE DEF x
<1>3. y[list] = r[list]
  BY <1>0 DEF Same, Fields
<1>4. /\ y.id = r.id /\ y.subsong_count = r.subsong_count /\ y.tags = r.tags /\ y.url = r.url
      /\ y.samples = r.samples /\ y.instruments = r.instruments /\ y.subsongs = r.subsongs
      /\ y.empty_tag_key = r.empty_tag_key
  BY DEF Same, Fields
<1>5. /\ IsRecord(x) /\ x.id = y.id /\ x.subsong_count = y.subsong_count /\ x.url = y.url
      /\ x.tags = y.tags /\ x.empty_tag_key = y.empty_tag_key
      /\ x.non_finite_number = y.non_finite_number
      /\ x.invalid_utf8 = y.invalid_utf8 /\ x.foreign_record_id = y.foreign_record_id
  BY <1>0, <1>1 DEF Same, Fields
<1>6. Grows(r, x, list, TRUE, EntryOf(p), cap)
  BY <1>1, <1>3 DEF Grows
<1>7. \A other \in {"subsongs", "samples", "instruments"} \ {list} : x[other] = r[other]
  BY <1>1, <1>4 DEF Same, Fields
<1>8. /\ Grows(r, x, "samples", p.call = "samples", EntryOf(p), Limit["names"])
      /\ Grows(r, x, "instruments", p.call = "instruments", EntryOf(p), Limit["names"])
      /\ Grows(r, x, "subsongs", p.call = "add_subsong", EntryOf(p), Limit["subsongs"])
  BY <1>6, <1>7, Zenon DEF Grows
<1>9. \A cut : cut \in x.truncation <=>
        \/ cut \in r.truncation
        \/ CutOf(p, cut)
        \/ cut = list /\ Len(r[list]) >= cap
  BY <1>1, <1>3
<1>10. \A cut : cut \in x.truncation <=>
        \/ cut \in r.truncation
        \/ CutOf(p, cut)
        \/ cut = "samples" /\ p.call = "samples" /\ Len(r.samples) >= Limit["names"]
        \/ cut = "instruments" /\ p.call = "instruments" /\ Len(r.instruments) >= Limit["names"]
        \/ cut = "subsongs" /\ p.call = "add_subsong" /\ Len(r.subsongs) >= Limit["subsongs"]
  <2>1. CASE p.call = "samples"
    <3>1. list = "samples" /\ cap = Limit["names"]
      BY <2>1
    <3>. QED BY <1>9, <2>1, <3>1
  <2>2. CASE p.call = "instruments"
    <3>1. list = "instruments" /\ cap = Limit["names"]
      BY <2>2
    <3>. QED BY <1>9, <2>2, <3>1
  <2>3. CASE p.call = "add_subsong"
    <3>1. list = "subsongs" /\ cap = Limit["subsongs"]
      BY <2>3
    <3>. QED BY <1>9, <2>3, <3>1
  <2>. QED BY <2>1, <2>2, <2>3
<1>11. FlagsTold(r, x, p)
  BY <1>2, <1>4, <1>5 DEF FlagsTold
<1>12. CutsTold(r, x, p)
  BY <1>2, <1>10 DEF CutsTold
<1>13. x.url = IF p.call = "create_url" /\ r.url.text = <<>> THEN EntryOf(p) ELSE r.url
  BY <1>4, <1>5
<1>14. Grows(r, x, "tags", KeptTag(p), EntryOf(p), Limit["tags"])
  BY <1>2, <1>4, <1>5 DEF Grows
<1>. QED BY <1>4, <1>5, <1>8, <1>11, <1>12, <1>13, <1>14, Zenon DEF Told, x

LEMMA AddNameTold ==
  ASSUME NEW r, IsRecord(r), r.id \in Int, NEW p, p.call \in {"samples", "instruments"}
  PROVE  Told(r, add_name(r, IF p.own THEN r.id ELSE r.id - 1, p.text, p.call), p)
<1>. DEFINE id == IF p.own THEN r.id ELSE r.id - 1
            text == Sent(p.text, "name")  y == accept(note_id(r, id), text, "name")
            entry == TextOf(text)  cap == Limit["names"]
<1>1. add_name(r, id, p.text, p.call) = Added(y, p.call, p.call, entry, cap)
  <2>. HIDE DEF id
  <2>. QED BY AddNameIs
<1>2. /\ Same(y, r, {"invalid_utf8", "truncation", "foreign_record_id"})
      /\ y.foreign_record_id <=> r.foreign_record_id \/ ~p.own
      /\ y.invalid_utf8 <=> r.invalid_utf8 \/ Invalid(p)
      /\ \A c : c \in y.truncation <=> c \in r.truncation \/ CutOf(p, c)
  BY NameNoted
<1>3. ~NotFinite(p)
  BY DEF NotFinite
<1>8. entry = EntryOf(p)
  BY NameEntry, Zenon
<1>. HIDE DEF y, id, entry
<1>4. y.non_finite_number = r.non_finite_number
  BY <1>2 DEF Same, Fields
<1>5. Same(y, r, {"invalid_utf8", "truncation", "foreign_record_id", "non_finite_number"})
  BY <1>2 DEF Same
<1>6. /\ p.call = IF p.call = "add_subsong" THEN "subsongs" ELSE p.call
      /\ cap = IF p.call = "add_subsong" THEN Limit["subsongs"] ELSE Limit["names"]
  OBVIOUS
<1>. HIDE DEF cap
<1>7. Told(r, Added(y, p.call, p.call, entry, cap), p)
  BY <1>2, <1>3, <1>4, <1>5, <1>6, <1>8, AddedTold
<1>. QED BY <1>1, <1>7 DEF id

LEMMA AddSubsongTold ==
  ASSUME NEW r, IsRecord(r), r.id \in Int, NEW p, p.call = "add_subsong"
  PROVE  Told(r, add_subsong(r, IF p.own THEN r.id ELSE r.id - 1, p.index, p.text, p.length), p)
<1>. DEFINE id == IF p.own THEN r.id ELSE r.id - 1
            text == Sent(p.text, "name")  y == accept(note_id(r, id), text, "name")
            cap == Limit["subsongs"]
            entry == [index |-> p.index, name |-> TextOf(text),
                      length_seconds |-> IF p.length = "positive" THEN p.length ELSE "none"]
<1>1. PICK told :
        /\ Same(told, y, {"non_finite_number"})
        /\ told.non_finite_number <=> y.non_finite_number \/ p.length = "nan"
        /\ add_subsong(r, id, p.index, p.text, p.length) =
             Added(told, "subsongs", "subsongs", entry, cap)
  <2>. HIDE DEF id
  <2>. QED BY AddSubsongIs
<1>2. /\ Same(y, r, {"invalid_utf8", "truncation", "foreign_record_id"})
      /\ y.foreign_record_id <=> r.foreign_record_id \/ ~p.own
      /\ y.invalid_utf8 <=> r.invalid_utf8 \/ Invalid(p)
      /\ \A c : c \in y.truncation <=> c \in r.truncation \/ CutOf(p, c)
  BY NameNoted
<1>3. NotFinite(p) <=> p.length = "nan"
  BY DEF NotFinite
<1>8. entry = EntryOf(p)
  BY NameEntry, Zenon
<1>. HIDE DEF y, id, entry
<1>4. /\ y.non_finite_number = r.non_finite_number
      /\ told.invalid_utf8 = y.invalid_utf8 /\ told.truncation = y.truncation
      /\ told.foreign_record_id = y.foreign_record_id
  BY <1>1, <1>2 DEF Same, Fields
<1>5. Same(told, r, {"invalid_utf8", "truncation", "foreign_record_id", "non_finite_number"})
  BY <1>1, <1>2 DEF Same
<1>6. /\ "subsongs" = IF p.call = "add_subsong" THEN "subsongs" ELSE p.call
      /\ cap = IF p.call = "add_subsong" THEN Limit["subsongs"] ELSE Limit["names"]
  OBVIOUS
<1>. HIDE DEF cap
<1>7. Told(r, Added(told, "subsongs", "subsongs", entry, cap), p)
  BY <1>1, <1>2, <1>3, <1>4, <1>5, <1>6, <1>8, AddedTold
<1>. QED BY <1>1, <1>7 DEF id

LEMMA AfterTold ==
  ASSUME NEW r, IsRecord(r), r.id \in Int, NEW p \in Pushes
  PROVE  Told(r, After(r, p), p)
<1>. DEFINE id == IF p.own THEN r.id ELSE r.id - 1
<1>0. p.call \in {"create_url", "set_tag", "set_tag_f64", "add_subsong", "samples", "instruments"}
  BY PluginAssumption DEF PluginAssumption, IsPush
<1>1. CASE p.call = "create_url"
  BY <1>1, UrlTold DEF After
<1>2. CASE p.call = "set_tag"
  <2>1. After(r, p) = set_tag(r, id, p.tag, p.data)
    BY <1>2, Zenon DEF After
  <2>. QED BY <1>2, <2>1, SetTagTold
<1>3. CASE p.call = "set_tag_f64"
  <2>1. After(r, p) = set_tag_f64(r, id, p.tag, p.number)
    BY <1>3, Zenon DEF After
  <2>. QED BY <1>3, <2>1, SetTagNumberTold
<1>4. CASE p.call = "add_subsong"
  <2>1. After(r, p) = add_subsong(r, id, p.index, p.text, p.length)
    BY <1>4, Zenon DEF After
  <2>. QED BY <1>4, <2>1, AddSubsongTold
<1>5. CASE p.call \in {"samples", "instruments"}
  <2>1. After(r, p) = add_name(r, id, p.text, p.call)
    BY <1>5 DEF After
  <2>. QED BY <1>5, <2>1, AddNameTold
<1>. QED BY <1>0, <1>1, <1>2, <1>3, <1>4, <1>5

-----------------------------------------------------------------------------
(* What a record tells of the pushes there were. *)

IsSeq(s) == \E X : s \in Seq(X)

LEMMA SeqLonger ==
  ASSUME NEW s, IsSeq(s), NEW e
  PROVE  /\ IsSeq(Append(s, e)) /\ Len(s) \in Nat /\ DOMAIN s = 1..Len(s)
         /\ Len(Append(s, e)) = Len(s) + 1 /\ DOMAIN Append(s, e) = 1..(Len(s) + 1)
         /\ Append(s, e)[Len(s) + 1] = e
         /\ \A i \in 1..Len(s) : Append(s, e)[i] = s[i]
<1>1. PICK X : s \in Seq(X)
  BY DEF IsSeq
<1>. DEFINE Y == X \cup {e}
<1>2. s \in Seq(Y) /\ e \in Y
  <2>1. \A i \in 1..Len(s) : s[i] \in Y
    BY <1>1
  <2>2. Len(s) \in Nat /\ s = [i \in 1..Len(s) |-> s[i]]
    BY <1>1
  <2>. HIDE DEF Y
  <2>3. s \in Seq(Y)
    BY <2>1, <2>2
  <2>. QED BY <2>3 DEF Y
<1>. HIDE DEF Y
<1>3. Append(s, e) \in Seq(Y) /\ Len(Append(s, e)) = Len(s) + 1 /\ Append(s, e)[Len(s) + 1] = e
      /\ \A i \in 1..Len(s) : Append(s, e)[i] = s[i]
  BY <1>2, AppendProperties
<1>4. IsSeq(Append(s, e))
  BY <1>3 DEF IsSeq
<1>. QED BY <1>2, <1>3, <1>4

(* The entries of s that are in P. *)
Among(s, P) == Selected(s, {i \in DOMAIN s : s[i] \in P})

LEMMA AmongIs ==
  ASSUME NEW X, NEW s \in Seq(X), NEW P
  PROVE  /\ Among(s, P) \in Seq(X) /\ Len(Among(s, P)) \in Nat
         /\ \A k \in 1..Len(Among(s, P)) : Among(s, P)[k] \in P
<1>. DEFINE S == {i \in DOMAIN s : s[i] \in P}
<1>1. S \in SUBSET DOMAIN s /\ \A i \in S : s[i] \in P
  OBVIOUS
<1>. HIDE DEF S
<1>2. /\ Selected(s, S) \in Seq(X) /\ Len(Selected(s, S)) = Cardinality(S)
      /\ \A k \in 1..Cardinality(S) : \E i \in S : Selected(s, S)[k] = s[i]
  BY <1>1, SelectedIs
<1>3. Among(s, P) = Selected(s, S)
  BY DEF Among, S
<1>. QED BY <1>1, <1>2, <1>3

LEMMA AmongLonger ==
  ASSUME NEW X, NEW s \in Seq(X), NEW x \in X, NEW P
  PROVE  Among(Append(s, x), P) = IF x \in P THEN Append(Among(s, P), x) ELSE Among(s, P)
<1>. DEFINE l == Append(s, x)  n == Len(s) + 1
            S == {i \in DOMAIN s : s[i] \in P}  T == {i \in DOMAIN l : l[i] \in P}
<1>1. /\ Len(s) \in Nat /\ DOMAIN s = 1..Len(s) /\ DOMAIN l = 1..n
      /\ l[n] = x /\ \A i \in 1..Len(s) : l[i] = s[i]
  BY AppendProperties
<1>2. T = IF x \in P THEN S \cup {n} ELSE S
  <2>. HIDE DEF l
  <2>1. 1..n = 1..Len(s) \cup {n}
    BY <1>1
  <2>. HIDE DEF n
  <2>. QED BY <1>1, <2>1
<1>3. S \in SUBSET DOMAIN s
  OBVIOUS
<1>. HIDE DEF S, T
<1>4. Selected(l, S) = Selected(s, S) /\ Selected(l, S \cup {n}) = Append(Selected(s, S), x)
  BY <1>3, SelectedLonger
<1>5. Among(l, P) = Selected(l, T) /\ Among(s, P) = Selected(s, S)
  BY DEF Among, S, T
<1>. QED BY <1>2, <1>4, <1>5

(* A list with a cap holds the entries of the first pushes there were for it, as
   many as fit. *)
Entries(list, pushes) == \A i \in DOMAIN list : list[i] = EntryOf(pushes[i])

Capped(list, pushes, truncated, cap) ==
  /\ IsSeq(list) /\ Len(list) = IF Len(pushes) < cap THEN Len(pushes) ELSE cap
  /\ Entries(list, pushes)
  /\ truncated <=> Len(pushes) > cap

LEMMA EntriesLonger ==
  ASSUME NEW X, NEW pushes \in Seq(X), NEW p \in X, NEW a, IsSeq(a), Entries(a, pushes),
         Len(a) <= Len(pushes)
  PROVE  /\ Entries(a, Append(pushes, p))
         /\ Len(a) = Len(pushes) => Entries(Append(a, EntryOf(p)), Append(pushes, p))
<1>. DEFINE n == Len(pushes)  t == Append(pushes, p)  b == Append(a, EntryOf(p))
<1>1. n \in Nat /\ t[n + 1] = p /\ \A i \in 1..n : t[i] = pushes[i]
  BY AppendProperties
<1>2. /\ DOMAIN a = 1..Len(a) /\ Len(a) \in Nat /\ DOMAIN b = 1..(Len(a) + 1)
      /\ b[Len(a) + 1] = EntryOf(p) /\ \A i \in 1..Len(a) : b[i] = a[i]
  BY SeqLonger
<1>. HIDE DEF n, t, b
<1>3. \A i \in 1..Len(a) : i \in 1..n
  BY <1>1, <1>2 DEF n
<1>4. Entries(a, t)
  BY <1>1, <1>2, <1>3 DEF Entries
<1>5. ASSUME Len(a) = n
      PROVE  Entries(b, t)
  <2>1. \A i \in 1..(n + 1) : i = n + 1 \/ i \in 1..n
    BY <1>1
  <2>2. \A i \in 1..n : b[i] = EntryOf(t[i])
    BY <1>2, <1>4, <1>5 DEF Entries
  <2>3. DOMAIN b = 1..(n + 1) /\ b[n + 1] = EntryOf(t[n + 1])
    BY <1>1, <1>2, <1>5
  <2>. QED BY <2>1, <2>2, <2>3 DEF Entries
<1>. QED BY <1>4, <1>5 DEF n, t, b

LEMMA CappedLonger ==
  ASSUME NEW r, NEW x, NEW list, NEW more, NEW cap \in Nat,
         NEW X, NEW pushes \in Seq(X), NEW p \in X, NEW cut,
         Grows(r, x, list, more, EntryOf(p), cap),
         Capped(r[list], pushes, cut \in r.truncation, cap),
         cut \in x.truncation <=> cut \in r.truncation \/ (more /\ Len(r[list]) >= cap)
  PROVE  Capped(x[list], IF more THEN Append(pushes, p) ELSE pushes, cut \in x.truncation, cap)
<1>. DEFINE a == r[list]  b == x[list]  was == cut \in r.truncation  is == cut \in x.truncation
<1>1. IsSeq(a) /\ Len(a) = (IF Len(pushes) < cap THEN Len(pushes) ELSE cap)
      /\ (was <=> Len(pushes) > cap) /\ (is <=> was \/ (more /\ Len(a) >= cap))
      /\ Entries(a, pushes)
  BY DEF Capped
<1>2. b = IF more /\ ~(Len(a) >= cap) THEN Append(a, EntryOf(p)) ELSE a
  BY Zenon DEF Grows
<1>3. Len(pushes) \in Nat /\ Len(Append(pushes, p)) = Len(pushes) + 1
  BY AppendProperties
<1>4. /\ Len(a) \in Nat /\ IsSeq(Append(a, EntryOf(p)))
      /\ Len(Append(a, EntryOf(p))) = Len(a) + 1
  <2>. HIDE DEF a
  <2>. QED BY <1>1, SeqLonger
<1>. HIDE DEF a, b, was, is
<1>8. /\ Entries(a, Append(pushes, p))
      /\ Len(a) = Len(pushes) => Entries(Append(a, EntryOf(p)), Append(pushes, p))
  <2>1. Len(a) <= Len(pushes)
    BY <1>1, <1>3
  <2>. QED BY <1>1, <2>1, EntriesLonger
<1>5. CASE ~more
  BY <1>1, <1>2, <1>5 DEF Capped, a, b, was, is
<1>6. CASE more /\ ~(Len(a) >= cap)
  <2>1. b = Append(a, EntryOf(p)) /\ Len(b) = Len(a) + 1 /\ IsSeq(b)
    BY <1>2, <1>4, <1>6
  <2>2. Len(pushes) < cap /\ Len(a) = Len(pushes) /\ Len(b) = Len(pushes) + 1
    BY <1>1, <1>3, <1>6, <2>1
  <2>3. (is <=> was) /\ ~was /\ ~(Len(Append(pushes, p)) > cap)
    BY <1>1, <1>3, <1>6, <2>2
  <2>4. Len(b) = IF Len(Append(pushes, p)) < cap THEN Len(Append(pushes, p)) ELSE cap
    BY <1>3, <2>2
  <2>6. Entries(b, Append(pushes, p))
    BY <1>8, <2>1, <2>2
  <2>5. Capped(b, Append(pushes, p), is, cap)
    BY <2>1, <2>3, <2>4, <2>6 DEF Capped
  <2>. QED BY <1>6, <2>5 DEF b, is
<1>7. CASE more /\ Len(a) >= cap
  <2>1. b = a /\ is
    BY <1>1, <1>2, <1>7
  <2>2. Len(pushes) >= cap /\ Len(a) = cap
    BY <1>1, <1>3, <1>7
  <2>3. Len(Append(pushes, p)) > cap
    BY <1>3, <2>2
  <2>4. Capped(b, Append(pushes, p), is, cap)
    BY <1>1, <1>3, <1>8, <2>1, <2>2, <2>3 DEF Capped
  <2>. QED BY <1>7, <2>4 DEF b, is
<1>. QED BY <1>5, <1>6, <1>7

LEMMA CutKinds ==
  ASSUME NEW p \in Pushes, NEW kind, CutOf(p, kind)
  PROVE  kind \in {"url", "tag_key", "tag_value", "name"}
<1>1. p.call \in {"create_url", "set_tag", "set_tag_f64", "add_subsong", "samples", "instruments"}
  BY PluginAssumption DEF PluginAssumption, IsPush
<1>. QED BY <1>1, TagTells, TagNumberTells, UrlTells, NameTells

Tagging == {p \in Pushes : KeptTag(p)}
Naming == {p \in Pushes : NamesUrl(p)}
Calling(kind) == {p \in Pushes : p.call = kind}

UrlIs(url, urls) == IF urls = <<>> THEN url.text = <<>> ELSE url = EntryOf(urls[1])

(* The flags of a record that was told the pushes in S. *)
Flagged(r, S) ==
  /\ r.invalid_utf8 <=> \E p \in S : Invalid(p)
  /\ \A kind \in {"url", "tag_key", "tag_value", "name"} :
       kind \in r.truncation <=> \E p \in S : CutOf(p, kind)
  /\ r.empty_tag_key <=> \E p \in S : Keyless(p)
  /\ r.non_finite_number <=> \E p \in S : NotFinite(p)
  /\ r.foreign_record_id <=> \E p \in S : p.call # "create_url" /\ ~p.own

(* What a record has to hold, but for its subsongs. *)
Digested(r, q) ==
  /\ Capped(r.tags, Among(q, Tagging), "tags" \in r.truncation, Limit["tags"])
  /\ Capped(r.samples, Among(q, Calling("samples")), "samples" \in r.truncation, Limit["names"])
  /\ Capped(r.instruments, Among(q, Calling("instruments")), "instruments" \in r.truncation,
            Limit["names"])
  /\ UrlIs(r.url, Among(q, Naming))
  /\ Flagged(r, ToSet(q))

(* What a record may report as cut. *)
Reports == StringLimits \cup CountLimits \cup {"samples", "instruments"}

RecordOf(r, q) ==
  /\ IsRecord(r) /\ r.truncation \subseteq Reports /\ r.id \in Int
  /\ r.subsong_count = "Reported" /\ q \in Seq(Pushes)
  /\ Digested(r, q)
  /\ Capped(r.subsongs, Among(q, Calling("add_subsong")), "subsongs" \in r.truncation,
            Limit["subsongs"])

LEMMA LongerSet ==
  ASSUME NEW X, NEW q \in Seq(X), NEW p \in X
  PROVE  ToSet(Append(q, p)) = ToSet(q) \cup {p}
<1>1. /\ Len(q) \in Nat /\ DOMAIN q = 1..Len(q) /\ DOMAIN Append(q, p) = 1..(Len(q) + 1)
      /\ Append(q, p)[Len(q) + 1] = p /\ \A i \in 1..Len(q) : Append(q, p)[i] = q[i]
  BY AppendProperties
<1>. DEFINE l == Append(q, p)
<1>2. ToSet(l) = {l[i] : i \in 1..(Len(q) + 1)} /\ ToSet(q) = {q[i] : i \in 1..Len(q)}
  BY <1>1 DEF ToSet
<1>. HIDE DEF l
<1>3. 1..(Len(q) + 1) = 1..Len(q) \cup {Len(q) + 1}
  BY <1>1
<1>. QED BY <1>1, <1>2, <1>3 DEF l

LEMMA FlaggedLonger ==
  ASSUME NEW r, NEW x, NEW S, NEW p \in Pushes, Flagged(r, S), Told(r, x, p)
  PROVE  Flagged(x, S \cup {p})
<1>1. /\ x.invalid_utf8 <=> r.invalid_utf8 \/ Invalid(p)
      /\ x.empty_tag_key <=> r.empty_tag_key \/ Keyless(p)
      /\ x.non_finite_number <=> r.non_finite_number \/ NotFinite(p)
      /\ x.foreign_record_id <=> r.foreign_record_id \/ (p.call # "create_url" /\ ~p.own)
      /\ \A kind \in {"url", "tag_key", "tag_value", "name"} :
           kind \in x.truncation <=> kind \in r.truncation \/ CutOf(p, kind)
  BY DEF Told, FlagsTold, CutsTold
<1>. QED BY <1>1, Zenon DEF Flagged

LEMMA CutsOf ==
  ASSUME NEW r, NEW x, NEW p \in Pushes, Told(r, x, p)
  PROVE  /\ "tags" \in x.truncation <=>
              "tags" \in r.truncation \/ (KeptTag(p) /\ Len(r.tags) >= Limit["tags"])
         /\ "samples" \in x.truncation <=>
              "samples" \in r.truncation \/ (p.call = "samples" /\ Len(r.samples) >= Limit["names"])
         /\ "instruments" \in x.truncation <=>
              "instruments" \in r.truncation
                \/ (p.call = "instruments" /\ Len(r.instruments) >= Limit["names"])
         /\ "subsongs" \in x.truncation <=>
              "subsongs" \in r.truncation
                \/ (p.call = "add_subsong" /\ Len(r.subsongs) >= Limit["subsongs"])
<1>1. ~CutOf(p, "tags") /\ ~CutOf(p, "samples") /\ ~CutOf(p, "instruments") /\ ~CutOf(p, "subsongs")
  BY CutKinds
<1>. QED BY <1>1 DEF Told, CutsTold

LEMMA DigestedLonger ==
  ASSUME NEW r, NEW x, NEW q \in Seq(Pushes), NEW p \in Pushes, Digested(r, q), Told(r, x, p)
  PROVE  Digested(x, Append(q, p))
<1>. DEFINE l == Append(q, p)  tags == Among(q, Tagging)  urls == Among(q, Naming)
<1>1. /\ Grows(r, x, "samples", p.call = "samples", EntryOf(p), Limit["names"])
      /\ Grows(r, x, "instruments", p.call = "instruments", EntryOf(p), Limit["names"])
      /\ Grows(r, x, "tags", KeptTag(p), EntryOf(p), Limit["tags"])
  BY DEF Told
<1>3. Limit["tags"] \in Nat /\ Limit["names"] \in Nat
  BY LimitIs DEF CountLimits
<1>4. /\ p \in Tagging <=> KeptTag(p)
      /\ \A kind : p \in Calling(kind) <=> p.call = kind
  BY DEF Tagging, Calling
<1>5. \A P : Among(q, P) \in Seq(Pushes)
             /\ Among(l, P) = IF p \in P THEN Append(Among(q, P), p) ELSE Among(q, P)
  BY AmongIs, AmongLonger
<1>. HIDE DEF l
<1>6. Capped(x.tags, Among(l, Tagging), "tags" \in x.truncation, Limit["tags"])
  <2>1. Grows(r, x, "tags", KeptTag(p), EntryOf(p), Limit["tags"])
    BY <1>1
  <2>2. Capped(r["tags"], tags, "tags" \in r.truncation, Limit["tags"])
    BY DEF Digested
  <2>3. tags \in Seq(Pushes) /\ Among(l, Tagging) = IF KeptTag(p) THEN Append(tags, p) ELSE tags
    BY <1>4, <1>5
  <2>. HIDE DEF tags
  <2>4. Capped(x["tags"], IF KeptTag(p) THEN Append(tags, p) ELSE tags, "tags" \in x.truncation,
               Limit["tags"])
    BY <1>3, <2>1, <2>2, <2>3, CutsOf, CappedLonger
  <2>. QED BY <2>3, <2>4
<1>8. \A kind \in {"samples", "instruments"} :
        Capped(x[kind], Among(l, Calling(kind)), kind \in x.truncation, Limit["names"])
  <2>1. SUFFICES ASSUME NEW kind \in {"samples", "instruments"}
                 PROVE  Capped(x[kind], Among(l, Calling(kind)), kind \in x.truncation,
                               Limit["names"])
    OBVIOUS
  <2>. DEFINE names == Among(q, Calling(kind))
  <2>2. Grows(r, x, kind, p.call = kind, EntryOf(p), Limit["names"])
    BY <1>1
  <2>3. Capped(r[kind], names, kind \in r.truncation, Limit["names"])
    BY DEF Digested
  <2>4. names \in Seq(Pushes)
        /\ Among(l, Calling(kind)) = IF p.call = kind THEN Append(names, p) ELSE names
    BY <1>4, <1>5
  <2>5. kind \in x.truncation <=>
          kind \in r.truncation \/ (p.call = kind /\ Len(r[kind]) >= Limit["names"])
    BY CutsOf
  <2>. HIDE DEF names
  <2>6. Capped(x[kind], IF p.call = kind THEN Append(names, p) ELSE names, kind \in x.truncation,
               Limit["names"])
    BY <1>3, <2>2, <2>3, <2>4, <2>5, CappedLonger
  <2>. QED BY <2>4, <2>6
<1>9. UrlIs(x.url, Among(l, Naming))
  <2>1. /\ UrlIs(r.url, urls)
        /\ x.url = IF p.call = "create_url" /\ r.url.text = <<>> THEN EntryOf(p) ELSE r.url
    BY DEF Digested, Told
  <2>2. urls \in Seq(Pushes) /\ Among(l, Naming) = IF p \in Naming THEN Append(urls, p) ELSE urls
    BY <1>5
  <2>3. p \in Naming <=> p.call = "create_url" /\ EntryOf(p).text # <<>>
    BY DEF Naming, NamesUrl
  <2>4. \A i \in 1..Len(urls) : urls[i] \in Naming
    BY AmongIs
  <2>. HIDE DEF urls
  <2>5. /\ Len(urls) \in Nat /\ (urls = <<>> <=> Len(urls) = 0) /\ Append(urls, p) # <<>>
        /\ Append(urls, p)[Len(urls) + 1] = p
        /\ \A i \in 1..Len(urls) : Append(urls, p)[i] = urls[i]
    <3>1. Len(Append(urls, p)) = Len(urls) + 1
      BY <2>2, AppendProperties
    <3>. QED BY <2>2, <3>1, AppendProperties, EmptySeq
  <2>6. CASE urls = <<>>
    <3>1. Append(urls, p)[1] = p
      BY <2>5, <2>6
    <3>. QED BY <2>1, <2>2, <2>3, <2>5, <2>6, <3>1 DEF UrlIs
  <2>7. CASE urls # <<>>
    <3>1. 1 \in 1..Len(urls)
      BY <2>5, <2>7
    <3>2. Append(urls, p)[1] = urls[1] /\ urls[1] \in Naming
      BY <2>4, <2>5, <3>1
    <3>3. EntryOf(urls[1]).text # <<>>
      BY <3>2 DEF Naming, NamesUrl
    <3>. QED BY <2>1, <2>2, <2>5, <2>7, <3>2, <3>3 DEF UrlIs
  <2>. QED BY <2>6, <2>7
<1>10. Flagged(x, ToSet(l))
  BY FlaggedLonger, LongerSet DEF Digested, l
<1>. HIDE DEF tags, urls
<1>11. Capped(x.samples, Among(l, Calling("samples")), "samples" \in x.truncation, Limit["names"])
       /\ Capped(x.instruments, Among(l, Calling("instruments")), "instruments" \in x.truncation,
                 Limit["names"])
  BY <1>8
<1>. QED BY <1>6, <1>9, <1>10, <1>11 DEF Digested, l

LEMMA RecordLonger ==
  ASSUME NEW r, NEW x, NEW q, NEW p \in Pushes, RecordOf(r, q), Told(r, x, p)
  PROVE  RecordOf(x, Append(q, p))
<1>1. q \in Seq(Pushes) /\ Append(q, p) \in Seq(Pushes)
  BY AppendProperties DEF RecordOf
<1>2. Digested(x, Append(q, p))
  BY <1>1, DigestedLonger DEF RecordOf
<1>. DEFINE songs == Among(q, Calling("add_subsong"))
<1>3. songs \in Seq(Pushes)
      /\ Among(Append(q, p), Calling("add_subsong"))
           = IF p.call = "add_subsong" THEN Append(songs, p) ELSE songs
  BY <1>1, AmongIs, AmongLonger DEF Calling
<1>4. Capped(r["subsongs"], songs, "subsongs" \in r.truncation, Limit["subsongs"])
      /\ Grows(r, x, "subsongs", p.call = "add_subsong", EntryOf(p), Limit["subsongs"])
  BY DEF RecordOf, Told
<1>5. Limit["subsongs"] \in Nat
  BY LimitIs DEF CountLimits
<1>. HIDE DEF songs
<1>6. Capped(x["subsongs"], IF p.call = "add_subsong" THEN Append(songs, p) ELSE songs,
             "subsongs" \in x.truncation, Limit["subsongs"])
  BY <1>3, <1>4, <1>5, CutsOf, CappedLonger
<1>7. x.truncation \subseteq Reports
  <2>1. SUFFICES ASSUME NEW cut \in x.truncation
                 PROVE  cut \in Reports
    OBVIOUS
  <2>2. r.truncation \subseteq Reports
    BY DEF RecordOf
  <2>3. \/ cut \in r.truncation \/ CutOf(p, cut)
        \/ cut \in {"tags", "samples", "instruments", "subsongs"}
    BY DEF Told, CutsTold
  <2>. QED BY <2>2, <2>3, CutKinds DEF Reports, StringLimits, CountLimits
<1>. QED BY <1>1, <1>2, <1>3, <1>6, <1>7 DEF RecordOf, Told

LEMMA FilteredAre ==
  ASSUME NEW q \in Seq(Pushes)
  PROVE  /\ Filtered(q, KeptTag) = Among(q, Tagging)
         /\ Filtered(q, IsSubsong) = Among(q, Calling("add_subsong"))
         /\ \A kind : Names(q, kind) = Among(q, Calling(kind))
         /\ Filtered(q, NamesUrl) = Among(q, Naming)
<1>1. \A i \in DOMAIN q : q[i] \in Pushes
  OBVIOUS
<1>2. Filtered(q, KeptTag) = Among(q, Tagging)
  BY <1>1, Zenon DEF Filtered, Among, Tagging
<1>3. Filtered(q, IsSubsong) = Among(q, Calling("add_subsong"))
  BY <1>1, Zenon DEF Filtered, Among, Calling, IsSubsong
<1>4. \A kind : Names(q, kind) = Among(q, Calling(kind))
  BY <1>1, Zenon DEF Filtered, Among, Calling, Names
<1>5. Filtered(q, NamesUrl) = Among(q, Naming)
  BY <1>1, Zenon DEF Filtered, Among, Naming
<1>. QED BY <1>2, <1>3, <1>4, <1>5, Zenon

LEMMA HoldsIs ==
  ASSUME NEW r, NEW list, NEW cut, NEW entries, NEW cap,
         Capped(r[list], entries, cut \in r.truncation, cap)
  PROVE  Holds(r, list, cut, entries, cap)
BY Zenon DEF Capped, Entries, Holds

LEMMA FlagsAre ==
  ASSUME NEW r, NEW S, Flagged(r, S)
  PROVE  /\ r.invalid_utf8 <=> \E p \in S : \E s \in StringsOf(p) : s[1].invalid
         /\ \A kind \in {"url", "tag_key", "tag_value", "name"} :
              kind \in r.truncation <=>
                \E p \in S : \E s \in StringsOf(p) : s[1].truncated /\ s[2] = kind
         /\ r.empty_tag_key <=> \E p \in S : Keyless(p)
         /\ r.non_finite_number <=> \E p \in S : NotFinite(p)
         /\ r.foreign_record_id <=> \E p \in S : p.call # "create_url" /\ ~p.own
BY Zenon DEF Flagged, Invalid, CutOf

LEMMA DigestIs ==
  ASSUME NEW r, NEW q \in Seq(Pushes), Digested(r, q)
  PROVE  Digest(r, q)
<1>. DEFINE tags == Filtered(q, KeptTag)
            urls == Filtered(q, NamesUrl)
<1>1. /\ tags = Among(q, Tagging) /\ urls = Among(q, Naming)
      /\ \A kind : Names(q, kind) = Among(q, Calling(kind))
  BY FilteredAre, Zenon
<1>2. Holds(r, "tags", "tags", tags, Limit["tags"])
  <2>1. Capped(r["tags"], Among(q, Tagging), "tags" \in r.truncation, Limit["tags"])
    BY Zenon DEF Digested
  <2>. QED BY <1>1, <2>1, HoldsIs, Zenon
<1>3. Holds(r, "samples", "samples", Names(q, "samples"), Limit["names"])
  <2>1. Capped(r["samples"], Among(q, Calling("samples")), "samples" \in r.truncation,
               Limit["names"])
    BY Zenon DEF Digested
  <2>. QED BY <1>1, <2>1, HoldsIs, Zenon
<1>4. Holds(r, "instruments", "instruments", Names(q, "instruments"), Limit["names"])
  <2>1. Capped(r["instruments"], Among(q, Calling("instruments")), "instruments" \in r.truncation,
               Limit["names"])
    BY Zenon DEF Digested
  <2>. QED BY <1>1, <2>1, HoldsIs, Zenon
<1>5. IF urls = <<>> THEN r.url.text = <<>> ELSE r.url = EntryOf(urls[1])
  BY <1>1, Zenon DEF Digested, UrlIs
<1>. HIDE DEF tags, urls
<1>7. Flagged(r, ToSet(q))
  BY Zenon DEF Digested
<1>. QED BY <1>2, <1>3, <1>4, <1>5, <1>7, FlagsAre, Zenon DEF Digest, tags, urls

LEMMA SameDigest ==
  ASSUME NEW r, NEW x, NEW q, Same(x, r, {"subsongs", "subsong_count"}), Digested(r, q)
  PROVE  Digested(x, q)
<1>1. /\ x.tags = r.tags /\ x.samples = r.samples /\ x.instruments = r.instruments
      /\ x.url = r.url /\ x.invalid_utf8 = r.invalid_utf8 /\ x.truncation = r.truncation
      /\ x.empty_tag_key = r.empty_tag_key /\ x.non_finite_number = r.non_finite_number
      /\ x.foreign_record_id = r.foreign_record_id
  BY DEF Same, Fields
<1>2. Flagged(r, ToSet(q)) => Flagged(x, ToSet(q))
  BY <1>1, Zenon DEF Flagged
<1>. QED BY <1>1, <1>2, Zenon DEF Digested

LEMMA FinishIs ==
  ASSUME NEW r, IsRecord(r)
  PROVE  /\ Same(finish(r), r, {"subsongs", "subsong_count"})
         /\ r.subsongs # <<>> => finish(r) = r
         /\ r.subsongs = <<>> =>
              /\ finish(r).subsong_count = "Assumed"
              /\ finish(r).subsongs =
                   <<[index |-> 0, name |-> NoText, length_seconds |-> "none"]>>
BY Zenon DEF finish, NoText, Same, IsRecord, Fields

(* What is taken holds what the record did, and a song when there was none. *)
LEMMA TakenTells ==
  ASSUME NEW r, NEW q, RecordOf(r, q)
  PROVE  /\ Digest(finish(r), q)
         /\ LET subsongs == Filtered(q, IsSubsong)
            IN  IF subsongs = <<>>
                THEN /\ finish(r).subsong_count = "Assumed"
                     /\ finish(r).subsongs =
                          <<[index |-> 0, name |-> NoText, length_seconds |-> "none"]>>
                ELSE /\ finish(r).subsong_count = "Reported"
                     /\ Holds(finish(r), "subsongs", "subsongs", subsongs, Limit["subsongs"])
<1>. DEFINE songs == Among(q, Calling("add_subsong"))
<1>1. /\ IsRecord(r) /\ r.subsong_count = "Reported" /\ q \in Seq(Pushes) /\ Digested(r, q)
      /\ Capped(r["subsongs"], songs, "subsongs" \in r.truncation, Limit["subsongs"])
  BY DEF RecordOf
<1>2. Digest(finish(r), q)
  BY <1>1, FinishIs, SameDigest, DigestIs
<1>3. Filtered(q, IsSubsong) = songs /\ songs \in Seq(Pushes)
  BY <1>1, FilteredAre, AmongIs, Zenon
<1>4. CASE songs = <<>> /\ r.subsongs = <<>>
  <2>1. /\ finish(r).subsong_count = "Assumed"
        /\ finish(r).subsongs = <<[index |-> 0, name |-> NoText, length_seconds |-> "none"]>>
    BY <1>1, <1>4, FinishIs, Zenon
  <2>. QED BY <1>2, <1>3, <1>4, <2>1, Zenon
<1>5. CASE songs # <<>> /\ r.subsongs # <<>>
  <2>1. finish(r) = r
    BY <1>1, <1>5, FinishIs, Zenon
  <2>2. Holds(r, "subsongs", "subsongs", songs, Limit["subsongs"])
    BY <1>1, HoldsIs, Zenon
  <2>. QED BY <1>1, <1>2, <1>3, <1>5, <2>1, <2>2, Zenon
<1>6. songs = <<>> <=> r.subsongs = <<>>
  <2>. DEFINE l == r.subsongs  cap == Limit["subsongs"]
  <2>1. IsSeq(l) /\ Len(l) = IF Len(songs) < cap THEN Len(songs) ELSE cap
    BY <1>1 DEF Capped
  <2>. HIDE DEF songs, l
  <2>2. (songs = <<>> <=> Len(songs) = 0) /\ Len(songs) \in Nat
    BY <1>3
  <2>3. l = <<>> <=> Len(l) = 0
    BY <2>1 DEF IsSeq
  <2>4. cap \in Nat \ {0}
    BY LimitIs DEF CountLimits
  <2>. QED BY <2>1, <2>2, <2>3, <2>4 DEF l
<1>. QED BY <1>4, <1>5, <1>6

(* The record is what was said since the last take makes of a new one, and so was
   the one taken. *)
Finished(record, q) == \E r : RecordOf(r, q) /\ record = finish(r)

RecordInv == RecordOf(track, said) /\ Finished(taken.record, taken.said)

LEMMA NewTrackIs ==
  ASSUME NEW n \in Int
  PROVE  RecordOf(NewTrack(n), <<>>)
<1>. DEFINE r == NewTrack(n)
<1>1. /\ r.id = n /\ r.url.text = <<>> /\ r.tags = <<>> /\ r.subsongs = <<>> /\ r.samples = <<>>
      /\ r.instruments = <<>> /\ r.subsong_count = "Reported"
      /\ r.invalid_utf8 = FALSE /\ r.empty_tag_key = FALSE /\ r.non_finite_number = FALSE
      /\ r.foreign_record_id = FALSE /\ r.truncation = {}
  BY DEF NewTrack
<1>2. IsRecord(r)
  BY Zenon DEF NewTrack, IsRecord, Fields
<1>3. \A P : Among(<<>>, P) = <<>>
  <2>1. SUFFICES ASSUME NEW P PROVE Among(<<>>, P) = <<>>
    OBVIOUS
  <2>2. <<>> \in Seq(Pushes) /\ {i \in DOMAIN <<>> : <<>>[i] \in P} = {}
    OBVIOUS
  <2>3. Among(<<>>, P) = Selected(<<>>, {})
    BY <2>2 DEF Among
  <2>4. Selected(<<>>, {}) \in Seq(Pushes) /\ Len(Selected(<<>>, {})) = Cardinality({})
    BY <2>2, SelectedIs
  <2>5. Len(Selected(<<>>, {})) = 0
    BY <2>4, FS_EmptySet
  <2>. QED BY <2>3, <2>4, <2>5, EmptySeq
<1>4. ToSet(<<>>) = {}
  BY DEF ToSet
<1>5. Flagged(r, {})
  BY <1>1, Zenon DEF Flagged
<1>6. \A cap \in Nat : Capped(<<>>, <<>>, FALSE, cap)
  <2>1. IsSeq(<<>>)
    <3>1. <<>> \in Seq(Nat)
      OBVIOUS
    <3>. QED BY <3>1, Zenon DEF IsSeq
  <2>2. Entries(<<>>, <<>>)
    BY DEF Entries
  <2>. QED BY <2>1, <2>2 DEF Capped
<1>7. Limit["tags"] \in Nat /\ Limit["names"] \in Nat /\ Limit["subsongs"] \in Nat
  BY LimitIs DEF CountLimits
<1>8. \A cut, cap : cap \in Nat => Capped(<<>>, <<>>, cut \in {}, cap)
  <2>1. SUFFICES ASSUME NEW cut, NEW cap \in Nat PROVE Capped(<<>>, <<>>, cut \in {}, cap)
    OBVIOUS
  <2>2. (cut \in {}) = FALSE
    OBVIOUS
  <2>. QED BY <1>6, <2>2
<1>9. UrlIs(r.url, <<>>)
  BY <1>1 DEF UrlIs
<1>. HIDE DEF r
<1>10. Digested(r, <<>>)
  BY <1>1, <1>3, <1>4, <1>5, <1>7, <1>8, <1>9 DEF Digested
<1>11. Capped(r.subsongs, Among(<<>>, Calling("add_subsong")), "subsongs" \in r.truncation,
              Limit["subsongs"])
  BY <1>1, <1>3, <1>7, <1>8
<1>12. <<>> \in Seq(Pushes)
  OBVIOUS
<1>13. RecordOf(r, <<>>)
  BY <1>1, <1>2, <1>10, <1>11, <1>12 DEF RecordOf
<1>. QED BY <1>13 DEF r

LEMMA RecordInit == Init => RecordInv
<1>1. RecordOf(NewTrack(0), <<>>) /\ RecordOf(NewTrack(1), <<>>)
  BY NewTrackIs
<1>2. Init => /\ track = NewTrack(1) /\ said = <<>>
              /\ taken.record = finish(NewTrack(0)) /\ taken.said = <<>>
  BY DEF Init
<1>. QED BY <1>1, <1>2, Zenon DEF RecordInv, Finished

LEMMA RecordElsewhere ==
  ASSUME Next
  PROVE  Push \/ Take \/ UNCHANGED metadata
BY Zenon DEF Next, GetService, Io, exists, ReadFromHost, BeginRead, ReadSome, ReadTrailing,
   free_url_to_memory, WriteFile, Log, Reg, Get, SetValue

LEMMA RecordStep ==
  ASSUME RecordInv, [Next]_vars
  PROVE  RecordInv'
<1>1. CASE Push
  <2>1. PICK p \in Pushes : track' = After(track, p) /\ said' = Append(said, p)
    BY <1>1, Zenon DEF Push
  <2>2. taken' = taken
    BY <1>1, Zenon DEF Push
  <2>3. RecordOf(track, said) /\ IsRecord(track) /\ track.id \in Int
    BY DEF RecordInv, RecordOf
  <2>4. Told(track, track', p)
    BY <2>1, <2>3, AfterTold
  <2>5. RecordOf(track', said')
    BY <2>1, <2>3, <2>4, RecordLonger
  <2>. QED BY <2>2, <2>5, Zenon DEF RecordInv
<1>2. CASE Take
  <2>1. /\ taken' = [record |-> finish(track), said |-> said]
        /\ track' = NewTrack(track.id + 1) /\ said' = <<>>
    BY <1>2, Zenon DEF Take
  <2>2. taken'.record = finish(track) /\ taken'.said = said
    BY <2>1
  <2>3. RecordOf(track, said) /\ track.id + 1 \in Int
    BY DEF RecordInv, RecordOf
  <2>4. RecordOf(track', said')
    BY <2>1, <2>3, NewTrackIs
  <2>. QED BY <2>2, <2>3, <2>4, Zenon DEF RecordInv, Finished
<1>3. CASE UNCHANGED metadata
  BY <1>3, Zenon DEF RecordInv, metadata
<1>4. CASE UNCHANGED vars
  BY <1>3, <1>4, Zenon DEF vars
<1>. QED BY <1>1, <1>2, <1>3, <1>4, RecordElsewhere

(* metadata.rs: whatever a plugin pushes and whenever the consumer takes, the record
   and the last one taken hold what was said since the take before.  The entries of
   each list are those of the first pushes for it, in order and up to its cap; the url
   is the first that is not empty; flags tell even of what was dropped; and a song is
   assumed when there was none. *)
THEOREM RecordKept == Spec => []RecordTells
<1>1. RecordInv => RecordTells
  <2>. SUFFICES ASSUME RecordInv PROVE RecordTells
    OBVIOUS
  <2>2. RecordOf(track, said)
    BY DEF RecordInv
  <2>3. Digest(track, said) /\ said \in Seq(Pushes)
    BY <2>2, DigestIs DEF RecordOf
  <2>4. Holds(track, "subsongs", "subsongs", Filtered(said, IsSubsong), Limit["subsongs"])
    <3>1. Capped(track["subsongs"], Among(said, Calling("add_subsong")),
                 "subsongs" \in track.truncation, Limit["subsongs"])
      BY <2>2, Zenon DEF RecordOf
    <3>2. Filtered(said, IsSubsong) = Among(said, Calling("add_subsong"))
      BY <2>3, FilteredAre, Zenon
    <3>. QED BY <3>1, <3>2, HoldsIs, Zenon
  <2>5. PICK r : RecordOf(r, taken.said) /\ taken.record = finish(r)
    BY Zenon DEF RecordInv, Finished
  <2>. QED BY <2>3, <2>4, <2>5, TakenTells, Zenon DEF RecordTells
<1>. QED BY <1>1, RecordInit, RecordStep, PTL DEF Spec

-----------------------------------------------------------------------------
(* Strings as they were read. *)

Seen(s, l) == Read[s, l]

LEMMA SentFits ==
  ASSUME NEW s \in Strings, NEW l \in StringLimits
  PROVE  IsMetadataText(TextOf(Sent(s, l)), Limit[l])
<1>. DEFINE d == decode(s, Limit[l])
<1>1. Limit[l] \in Nat
  BY LimitIs
<1>2. s \in {Null} \cup Seq(Bytes) /\ Sent(s, l) = d
  BY ReadIs, Zenon DEF Sent
<1>. HIDE DEF Sent
<1>3. /\ d.text \in Fitting(Limit[l])
      /\ d.raw = Null \/ (d.raw \in Seq(Bytes) /\ Len(d.raw) <= Limit[l])
  BY <1>1, <1>2, DecodeIs
<1>. HIDE DEF d
<1>4. TextOf(d).text = d.text /\ TextOf(d).raw = d.raw
  BY DEF TextOf
<1>5. TextFits(d.text, Limit[l])
  BY <1>3 DEF TextFits, Fitting, TextOfBytes
<1>6. IsMetadataText(TextOf(d), Limit[l])
  BY <1>3, <1>4, <1>5 DEF IsMetadataText
<1>. QED BY <1>2, <1>6

LEMMA SentFlag ==
  ASSUME NEW s \in Strings, NEW l \in StringLimits
  PROVE  Sent(s, l).invalid \in BOOLEAN
<1>1. Limit[l] \in Nat
  BY LimitIs
<1>2. s \in {Null} \cup Seq(Bytes) /\ Sent(s, l) = decode(s, Limit[l])
  BY ReadIs, Zenon DEF Sent
<1>. HIDE DEF Sent
<1>. QED BY <1>1, <1>2, DecodeIs

LEMMA SeenFits ==
  ASSUME NEW s \in Strings, NEW l \in StringLimits
  PROVE  Seen(s, l) \in {Null, Refused} \/ TextFits(Seen(s, l), Limit[l])
<1>. DEFINE limit == Limit[l]  x == plugin_str(s, limit)
<1>1. limit \in Nat
  BY LimitIs
<1>2. s \in {Null} \cup Seq(Bytes) /\ Seen(s, l) = x
  BY ReadIs, Zenon DEF Seen
<1>. HIDE DEF Seen, limit
<1>3. /\ s = Null => x = Null
      /\ s # Null /\ Len(s) > limit => x = Refused
      /\ s # Null /\ Len(s) <= limit => x \in Fitting(limit)
  BY <1>1, <1>2, PluginStrIs
<1>4. s # Null => Len(s) \in Nat
  BY <1>2
<1>. HIDE DEF x
<1>5. x = Null \/ x = Refused \/ x \in Fitting(limit)
  BY <1>1, <1>3, <1>4
<1>6. x \in Fitting(limit) => TextFits(x, limit)
  BY DEF TextFits, Fitting, TextOfBytes
<1>. QED BY <1>2, <1>5, <1>6 DEF limit

LEMMA EmptyFits ==
  ASSUME NEW limit \in Nat
  PROVE  TextFits(<<>>, limit)
<1>1. {i \in DOMAIN <<>> : <<>>[i] = Replacement} = {} /\ Len(<<>>) = 0
  OBVIOUS
<1>2. Count({}, 0) = 0
  BY CountNone
<1>3. TextLen(<<>>) = 0
  BY <1>1, <1>2 DEF TextLen
<1>4. <<>> \in Seq(Bytes \cup {Replacement})
  OBVIOUS
<1>. QED BY <1>3, <1>4 DEF TextFits

(* A list is one of what is in it. *)
LEMMA ListIs ==
  ASSUME NEW list, IsSeq(list), NEW cap, Len(list) <= cap
  PROVE  IsList(list, cap)
<1>1. PICK X : list \in Seq(X)
  BY DEF IsSeq
<1>. DEFINE n == Len(list)  Y == ToSet(list)  f == [i \in 1..n |-> list[i]]
<1>2. n \in Nat /\ list = f /\ \A i \in 1..n : list[i] \in Y
  BY <1>1 DEF ToSet
<1>. HIDE DEF n, Y
<1>3. f \in Seq(Y)
  <2>1. f \in [1..n -> Y]
    BY <1>2
  <2>. QED BY <1>2, <2>1, SeqDef
<1>. HIDE DEF f
<1>4. list \in Seq(Y)
  BY <1>2, <1>3
<1>. QED BY <1>4 DEF IsList, Y

-----------------------------------------------------------------------------
(* Registrations. *)

LEMMA LeastIs ==
  ASSUME NEW n \in Nat, NEW E \in SUBSET (1..n), E # {}
  PROVE  \E i \in E : \A j \in E : i <= j
<1>. DEFINE M == {k \in 0..n : n - k \in E}
<1>1. M \in SUBSET (0..n) /\ M # {}
  <2>1. PICK j \in E : TRUE
    OBVIOUS
  <2>2. j \in 1..n /\ n - j \in 0..n /\ n - (n - j) = j
    OBVIOUS
  <2>. QED BY <2>1, <2>2
<1>2. Max(M) \in M /\ \A k \in M : k <= Max(M)
  <2>. HIDE DEF M
  <2>. QED BY <1>1, MaxIsMost
<1>. DEFINE m == Max(M)
<1>3. m \in 0..n /\ n - m \in E /\ \A k \in M : k <= m
  BY <1>2
<1>. HIDE DEF m
<1>4. ASSUME NEW j \in E PROVE n - m <= j
  <2>1. j \in 1..n /\ n - j \in 0..n /\ n - (n - j) = j
    OBVIOUS
  <2>2. n - j <= m
    BY <1>3, <2>1
  <2>. QED BY <1>3, <2>1, <2>2
<1>. QED BY <1>3, <1>4

(* What Collected makes of the outcomes, and of an error. *)
CollectedFrom(read, outcomes) ==
  /\ read.ok =>
       /\ IsList(read.values, Len(outcomes))
       /\ \A k \in DOMAIN read.values : \E i \in DOMAIN outcomes :
            outcomes[i].is = "value" /\ read.values[k] = outcomes[i].value
       /\ \A i \in DOMAIN outcomes : outcomes[i].is = "value" =>
            \E k \in DOMAIN read.values : read.values[k] = outcomes[i].value
  /\ ~read.ok =>
       \E i \in DOMAIN outcomes : outcomes[i].is = "error" /\ read.code = outcomes[i].code

LEMMA CollectedIs ==
  ASSUME NEW X, NEW outcomes \in Seq(X)
  PROVE  CollectedFrom(Collected(outcomes), outcomes)
<1>. DEFINE errors == {i \in DOMAIN outcomes : outcomes[i].is = "error"}
            first == CHOOSE i \in errors : \A j \in errors : i <= j
            S == {i \in DOMAIN outcomes : outcomes[i].is = "value"}
            kept == Selected(outcomes, S)
            values == [k \in DOMAIN kept |-> kept[k].value]
            read == Collected(outcomes)
<1>1. read = IF errors = {} THEN [ok |-> TRUE, values |-> values, upto |-> Len(outcomes)]
             ELSE [ok |-> FALSE, code |-> outcomes[first].code, upto |-> first]
  BY Zenon DEF Collected, Filtered
<1>2. CASE errors = {}
  <2>1. S \in SUBSET DOMAIN outcomes /\ \A i : i \in S <=> i \in DOMAIN outcomes /\ outcomes[i].is = "value"
    OBVIOUS
  <2>. HIDE DEF S
  <2>2. /\ kept \in Seq(X) /\ Len(kept) = Cardinality(S)
        /\ \A k \in 1..Cardinality(S) : \E i \in S : kept[k] = outcomes[i]
        /\ \A i \in S : \E k \in 1..Cardinality(S) : kept[k] = outcomes[i]
    BY <2>1, SelectedIs
  <2>. HIDE DEF kept
  <2>3. DOMAIN kept = 1..Cardinality(S)
    BY <2>2
  <2>4. /\ DOMAIN values = DOMAIN kept
        /\ \A k \in DOMAIN values : values[k] = kept[k].value
    OBVIOUS
  <2>9. IsList(values, Len(outcomes))
    <3>1. Cardinality(S) \in Nat /\ Cardinality(S) <= Len(outcomes)
      <4>0. PICK n \in Nat : n = Len(outcomes)
        OBVIOUS
      <4>1. IsFiniteSet(1..n) /\ Cardinality(1..n) = IF n >= 1 THEN n - 1 + 1 ELSE 0
        BY FS_Interval
      <4>2. S \in SUBSET (1..Len(outcomes))
        BY <2>1
      <4>3. Cardinality(1..n) = n
        BY <4>1
      <4>4. S \in SUBSET (1..n)
        BY <4>0, <4>2
      <4>5. IsFiniteSet(S) /\ Cardinality(S) <= Cardinality(1..n)
        BY <4>1, <4>4, FS_Subset
      <4>6. Cardinality(S) \in Nat
        BY <4>5, FS_CardinalityType
      <4>. QED BY <4>0, <4>3, <4>5, <4>6
    <3>2. DOMAIN values = 1..Cardinality(S) /\ IsSeq(values) /\ Len(values) = Cardinality(S)
      <4>. DEFINE m == Cardinality(S)  Y == {kept[k].value : k \in 1..m}
      <4>1. values = [k \in 1..m |-> kept[k].value] /\ m \in Nat
        BY <2>3, <3>1
      <4>. HIDE DEF values, m
      <4>2. values \in [1..m -> Y]
        BY <4>1
      <4>. HIDE DEF Y
      <4>3. values \in Seq(Y)
        BY <4>1, <4>2, SeqDef
      <4>4. Len(values) = m /\ DOMAIN values = 1..m
        BY <4>1, <4>2, <4>3
      <4>. QED BY <4>3, <4>4 DEF IsSeq, m
    <3>. HIDE DEF values
    <3>. QED BY <3>1, <3>2, ListIs
  <2>. HIDE DEF values
  <2>5. read.ok /\ read.values = values
    BY <1>1, <1>2
  <2>6. \A k \in DOMAIN values : \E i \in DOMAIN outcomes :
          outcomes[i].is = "value" /\ values[k] = outcomes[i].value
    BY <2>1, <2>2, <2>3, <2>4
  <2>7. \A i \in DOMAIN outcomes : outcomes[i].is = "value" =>
          \E k \in DOMAIN values : values[k] = outcomes[i].value
    <3>1. SUFFICES ASSUME NEW i \in DOMAIN outcomes, outcomes[i].is = "value"
                   PROVE  \E k \in DOMAIN values : values[k] = outcomes[i].value
      OBVIOUS
    <3>2. i \in S
      BY <2>1, <3>1
    <3>3. PICK k \in 1..Cardinality(S) : kept[k] = outcomes[i]
      BY <2>2, <3>2
    <3>4. k \in DOMAIN values /\ values[k] = outcomes[i].value
      BY <2>3, <2>4, <3>3
    <3>. QED BY <3>4
  <2>. HIDE DEF read
  <2>8. CollectedFrom(read, outcomes)
    BY <2>5, <2>6, <2>7, <2>9, Zenon DEF CollectedFrom
  <2>. QED BY <2>8 DEF read
<1>3. CASE errors # {}
  <2>1. Len(outcomes) \in Nat /\ errors \in SUBSET (1..Len(outcomes))
    OBVIOUS
  <2>2. \E i \in errors : \A j \in errors : i <= j
    <3>. HIDE DEF errors
    <3>. QED BY <1>3, <2>1, LeastIs
  <2>3. first \in errors
    <3>. HIDE DEF errors
    <3>. QED BY <2>2, Zenon
  <2>4. first \in DOMAIN outcomes /\ outcomes[first].is = "error"
    <3>. HIDE DEF first
    <3>. QED BY <2>3
  <2>. HIDE DEF first, errors, values
  <2>5. ~read.ok /\ read.code = outcomes[first].code
    BY <1>1, <1>3
  <2>. HIDE DEF read
  <2>6. CollectedFrom(read, outcomes)
    BY <2>4, <2>5, Zenon DEF CollectedFrom
  <2>. QED BY <2>6 DEF read
<1>. QED BY <1>2, <1>3

(* An error has a code of its own. *)
ErrorCodes == {"NotFound", "InvalidCount"}
Coded(o) == o.is = "error" => o.code \in ErrorCodes

(* What an array came to: a list within the limit of what its entries came to, or a
   code. *)
ArrayFrom(read, limit, outcomes) ==
  /\ read.ok => /\ IsList(read.values, limit)
                /\ \A x \in ToSet(read.values) : \E i \in DOMAIN outcomes :
                     outcomes[i].is = "value" /\ x = outcomes[i].value
  /\ ~read.ok => read.code \in ErrorCodes

LEMMA ArrayIs ==
  ASSUME NEW array, IsArray(array), NEW limit \in Nat, NEW X, NEW outcomes \in Seq(X),
         Len(outcomes) = Len(array.items), \A i \in DOMAIN outcomes : Coded(outcomes[i]),
         NEW read, read = ReadArray(array, limit, outcomes)
  PROVE  ArrayFrom(read, limit, outcomes)
<1>1. CASE TooMany(array, limit)
  <2>1. read = [ok |-> FALSE, code |-> "InvalidCount", upto |-> 0]
    BY <1>1, Zenon DEF ReadArray
  <2>2. ~read.ok /\ read.code \in ErrorCodes
    BY <2>1 DEF ErrorCodes
  <2>. QED BY <2>2, Zenon DEF ArrayFrom
<1>2. CASE ~TooMany(array, limit) /\ array.null
  <2>1. read = [ok |-> TRUE, values |-> <<>>, upto |-> 0]
    BY <1>2, Zenon DEF ReadArray
  <2>2. read.ok /\ read.values = <<>>
    BY <2>1
  <2>3. ToSet(<<>>) = {} /\ <<>> \in Seq(ToSet(<<>>)) /\ Len(<<>>) = 0
    BY DEF ToSet
  <2>4. IsList(<<>>, limit)
    BY <2>3 DEF IsList
  <2>. QED BY <2>2, <2>3, <2>4 DEF ArrayFrom
<1>3. CASE ~TooMany(array, limit) /\ ~array.null
  <2>1. read = Collected(outcomes)
    BY <1>3, Zenon DEF ReadArray
  <2>2. CollectedFrom(read, outcomes)
    BY <2>1, CollectedIs
  <2>3. Len(outcomes) \in Nat /\ Len(outcomes) <= limit
    <3>1. array.count \in Nat /\ Len(array.items) <= array.count /\ ~(array.count > limit)
      BY <1>3 DEF IsArray, TooMany
    <3>. QED BY <3>1
  <2>4. CASE read.ok
    <3>. DEFINE values == read.values
    <3>1. /\ IsList(values, Len(outcomes))
          /\ \A k \in DOMAIN values : \E i \in DOMAIN outcomes :
               outcomes[i].is = "value" /\ values[k] = outcomes[i].value
      BY <2>2, <2>4, Zenon DEF CollectedFrom
    <3>. HIDE DEF values
    <3>2. values \in Seq(ToSet(values)) /\ Len(values) <= limit
      <4>1. values \in Seq(ToSet(values)) /\ Len(values) <= Len(outcomes)
        BY <3>1 DEF IsList
      <4>2. Len(values) \in Nat
        BY <4>1
      <4>. QED BY <2>3, <4>1, <4>2
    <3>3. IsList(values, limit)
      BY <3>2 DEF IsList
    <3>4. \A x \in ToSet(values) : \E i \in DOMAIN outcomes :
            outcomes[i].is = "value" /\ x = outcomes[i].value
      BY <3>1 DEF ToSet
    <3>. QED BY <2>4, <3>3, <3>4, Zenon DEF ArrayFrom, values
  <2>5. CASE ~read.ok
    BY <2>2, <2>5, Zenon DEF CollectedFrom, Coded, ArrayFrom
  <2>. QED BY <2>4, <2>5
<1>. QED BY <1>1, <1>2, <1>3, Zenon

LEMMA ValueIs ==
  ASSUME NEW x
  PROVE  Value(x).is = "value" /\ Value(x).value = x /\ Coded(Value(x))
BY DEF Value, Coded

LEMMA ErrorIs ==
  ASSUME NEW code \in ErrorCodes
  PROVE  Error(code).is = "error" /\ Coded(Error(code))
BY DEF Error, Coded

LEMMA PassedOver ==
  /\ Coded(Skipped) /\ Skipped.is = "skipped"
  /\ Coded(Warned) /\ Warned.is = "warned"
  /\ Coded(Error("NotFound")) /\ Error("NotFound").is = "error"
BY DEF Skipped, Warned, Coded, Error, ErrorCodes

LEMMA Words ==
  /\ "value" # "error" /\ "value" # "skipped" /\ "value" # "warned" /\ "error" # "skipped"
  /\ "error" # "warned"
OBVIOUS

(* A choice that is kept has a name that was read. *)
ChoiceFor(o) == Coded(o) /\ (o.is = "value" => TextFits(o.value.name, Limit["label"]))

LEMMA ChoiceIs ==
  ASSUME NEW entry, entry.name \in Strings
  PROVE  ChoiceFor(ReadIntChoice(entry)) /\ ChoiceFor(ReadStrChoice(entry))
<1>. DEFINE name == Seen(entry.name, "label")
<1>1. name \in {Null, Refused} \/ TextFits(name, Limit["label"])
  <2>1. "label" \in StringLimits
    BY DEF StringLimits
  <2>. QED BY <2>1, SeenFits
<1>2. ChoiceFor(Skipped) /\ ChoiceFor(Error("NotFound"))
  BY PassedOver, Words, Zenon DEF ChoiceFor
<1>3. ASSUME NEW value, name \notin {Null, Refused}
      PROVE  ChoiceFor(Value([name |-> name, value |-> value]))
  <2>. DEFINE x == [name |-> name, value |-> value]
  <2>1. x.name = name
    OBVIOUS
  <2>2. TextFits(x.name, Limit["label"])
    BY <1>1, <1>3, <2>1
  <2>. HIDE DEF x
  <2>. QED BY <2>2, ValueIs, Zenon DEF ChoiceFor, x
<1>4. \/ ReadIntChoice(entry) = Skipped \/ ReadIntChoice(entry) = Error("NotFound")
      \/ /\ name \notin {Null, Refused}
         /\ \E value : ReadIntChoice(entry) = Value([name |-> name, value |-> value])
  BY Zenon DEF ReadIntChoice, Seen
<1>5. \/ ReadStrChoice(entry) = Skipped \/ ReadStrChoice(entry) = Error("NotFound")
      \/ /\ name \notin {Null, Refused}
         /\ \E value : ReadStrChoice(entry) = Value([name |-> name, value |-> value])
  BY Zenon DEF ReadStrChoice, Seen
<1>. HIDE DEF name
<1>. QED BY <1>2, <1>3, <1>4, <1>5, Zenon

LEMMA MappedIs ==
  ASSUME NEW array, IsArray(array), NEW outcomes, DOMAIN outcomes = DOMAIN array.items,
         outcomes = [i \in DOMAIN array.items |-> outcomes[i]]
  PROVE  outcomes \in Seq(ToSet(outcomes)) /\ Len(outcomes) = Len(array.items)
<1>1. array.items \in Seq(ToSet(array.items))
  BY DEF IsArray
<1>2. DOMAIN array.items = 1..Len(array.items) /\ Len(array.items) \in Nat
  BY <1>1
<1>. DEFINE n == Len(array.items)  X == ToSet(outcomes)
<1>3. \A i \in 1..n : outcomes[i] \in X
  BY <1>2 DEF ToSet
<1>. HIDE DEF n, X
<1>. DEFINE f == [i \in 1..n |-> outcomes[i]]
<1>4. outcomes = f /\ n \in Nat
  BY <1>2 DEF n
<1>5. f \in Seq(X) /\ Len(f) = n
  <2>1. f \in [1..n -> X]
    BY <1>3
  <2>2. f \in Seq(X)
    BY <1>4, <2>1, SeqDef
  <2>3. DOMAIN f = 1..n
    BY <2>1
  <2>. HIDE DEF f
  <2>. QED BY <1>4, <2>2, <2>3
<1>. HIDE DEF f
<1>. QED BY <1>4, <1>5 DEF X, n

ChoicesFit(choices) ==
  /\ IsList(choices, Limit["choices"])
  /\ \A choice \in ToSet(choices) : TextFits(choice.name, Limit["label"])

IsChoices(array) == IsArray(array) /\ \A choice \in ToSet(array.items) : choice.name \in Strings

LEMMA ChoicesRead ==
  ASSUME NEW array, IsChoices(array),
         NEW outcomes, outcomes \in {IntChoices(array.items), StrChoices(array.items)},
         NEW read, read = ReadArray(array, Limit["choices"], outcomes)
  PROVE  (read.ok => ChoicesFit(read.values)) /\ (~read.ok => read.code \in ErrorCodes)
<1>1. IsArray(array) /\ \A i \in DOMAIN array.items : array.items[i].name \in Strings
  BY DEF IsChoices, ToSet
<1>2. DOMAIN outcomes = DOMAIN array.items /\ outcomes = [i \in DOMAIN array.items |-> outcomes[i]]
      /\ \A i \in DOMAIN outcomes : ChoiceFor(outcomes[i])
  BY <1>1, ChoiceIs, Zenon DEF IntChoices, StrChoices
<1>3. outcomes \in Seq(ToSet(outcomes)) /\ Len(outcomes) = Len(array.items)
  BY <1>1, <1>2, MappedIs
<1>4. \A i \in DOMAIN outcomes : Coded(outcomes[i])
  BY <1>2 DEF ChoiceFor
<1>5. Limit["choices"] \in Nat
  BY LimitIs DEF CountLimits
<1>6. ArrayFrom(read, Limit["choices"], outcomes)
  BY <1>1, <1>3, <1>4, <1>5, ArrayIs
<1>. QED BY <1>2, <1>6, Zenon DEF ArrayFrom, ChoiceFor, ChoicesFit

(* A setting as it was read has the kind of its entry, and choices that fit. *)
SettingFor(entry, o) ==
  /\ Coded(o)
  /\ o.is = "value" => \E value, choices :
       ChoicesFit(choices) /\ o.value = SettingOf(entry.type, value, choices)

LEMMA ChosenIs ==
  ASSUME NEW entry, NEW value, NEW choices, choices.ok => ChoicesFit(choices.values),
         ~choices.ok => choices.code \in ErrorCodes
  PROVE  SettingFor(entry, Chosen(entry, value, choices))
<1>1. CASE choices.ok
  <2>1. Chosen(entry, value, choices) = Value(SettingOf(entry.type, value, choices.values))
    BY <1>1, Zenon DEF Chosen
  <2>. DEFINE x == SettingOf(entry.type, value, choices.values)
  <2>2. Value(x).value = x /\ Coded(Value(x))
    BY ValueIs
  <2>. QED BY <1>1, <2>1, <2>2, Zenon DEF SettingFor
<1>2. CASE ~choices.ok
  <2>1. Chosen(entry, value, choices) = Error(choices.code)
    BY <1>2, Zenon DEF Chosen
  <2>. QED BY <1>2, <2>1, ErrorIs, Words, Zenon DEF SettingFor
<1>. QED BY <1>1, <1>2

LEMMA SettingIs ==
  ASSUME NEW entry, IsChoices(entry.choices)
  PROVE  SettingFor(entry, ReadSetting(entry))
<1>. DEFINE ints == ReadArray(entry.choices, Limit["choices"], IntChoices(entry.choices.items))
            strs == ReadArray(entry.choices, Limit["choices"], StrChoices(entry.choices.items))
<1>1. \A value : SettingFor(entry, Chosen(entry, value, ints))
  <2>1. (ints.ok => ChoicesFit(ints.values)) /\ (~ints.ok => ints.code \in ErrorCodes)
    BY ChoicesRead, Zenon
  <2>. QED BY <2>1, ChosenIs, Zenon
<1>2. \A value : SettingFor(entry, Chosen(entry, value, strs))
  <2>1. (strs.ok => ChoicesFit(strs.values)) /\ (~strs.ok => strs.code \in ErrorCodes)
    BY ChoicesRead, Zenon
  <2>. QED BY <2>1, ChosenIs, Zenon
<1>3. SettingFor(entry, Warned) /\ SettingFor(entry, Error("NotFound"))
  BY PassedOver, Words, Zenon DEF SettingFor
<1>4. SettingFor(entry, Value(SettingOf(entry.type, entry.value, <<>>)))
  <2>1. ChoicesFit(<<>>)
    <3>1. ToSet(<<>>) = {} /\ <<>> \in Seq(ToSet(<<>>)) /\ Len(<<>>) = 0
      BY DEF ToSet
    <3>2. Limit["choices"] \in Nat
      BY LimitIs DEF CountLimits
    <3>. QED BY <3>1, <3>2 DEF ChoicesFit, IsList
  <2>. QED BY <2>1, ValueIs, Zenon DEF SettingFor
<1>. DEFINE o == ReadSetting(entry)
<1>5. \/ o = Warned \/ o = Error("NotFound")
      \/ o = Value(SettingOf(entry.type, entry.value, <<>>))
      \/ \E value : o = Chosen(entry, value, ints) \/ o = Chosen(entry, value, strs)
  BY Zenon DEF ReadSetting
<1>. HIDE DEF o, ints, strs
<1>. QED BY <1>1, <1>2, <1>3, <1>4, <1>5, Zenon DEF o

(* A schema with an id and a kind: its texts and choices fit, and its value is any. *)
SchemaFor(x, id, kind) ==
  /\ TextFits(id, Limit["setting_id"]) /\ id # <<>> /\ kind \in Kinds
  /\ \E name, desc, value, choices :
       /\ TextFits(name, Limit["label"]) /\ TextFits(desc, Limit["description"])
       /\ ChoicesFit(choices)
       /\ x = [id |-> id, name |-> name, desc |-> desc, setting |-> SettingOf(kind, value, choices)]

LEMMA SchemaIs ==
  ASSUME NEW x, NEW id, NEW kind, SchemaFor(x, id, kind)
  PROVE  /\ x.id = id /\ x.setting.kind = kind /\ IsSchema(x)
         /\ \A v : SchemaFor([x EXCEPT !.setting.value = v], id, kind)
<1>1. PICK name, desc, value, choices :
        /\ TextFits(name, Limit["label"]) /\ TextFits(desc, Limit["description"])
        /\ ChoicesFit(choices)
        /\ x = [id |-> id, name |-> name, desc |-> desc, setting |-> SettingOf(kind, value, choices)]
  BY Zenon DEF SchemaFor
<1>2. /\ x.id = id /\ x.name = name /\ x.desc = desc
      /\ x.setting.kind = kind /\ x.setting.choices = choices
  BY <1>1 DEF SettingOf
<1>3. ASSUME NEW v
      PROVE  SchemaFor([x EXCEPT !.setting.value = v], id, kind)
  <2>. DEFINE y == [x EXCEPT !.setting.value = v]
  <2>1. y = [id |-> id, name |-> name, desc |-> desc, setting |-> SettingOf(kind, v, choices)]
    BY <1>1 DEF SettingOf
  <2>. HIDE DEF y
  <2>2. SchemaFor(y, id, kind)
    BY <1>1, <2>1, Zenon DEF SchemaFor
  <2>. QED BY <2>2 DEF y
<1>4. IsSchema(x)
  BY <1>1, <1>2, Zenon DEF IsSchema, ChoicesFit, SchemaFor
<1>. QED BY <1>2, <1>3, <1>4

(* An entry that is kept has an id that can be looked up, and its own kind. *)
ReadAs(entry, o) ==
  /\ Coded(o)
  /\ o.is = "value" => \E id : /\ id = Seen(entry.id, "setting_id")
                               /\ id # Null /\ id # Refused
                               /\ SchemaFor(o.value, id, entry.type)

LEMMA EnteredIs ==
  ASSUME NEW entry, {entry.id, entry.name, entry.desc} \subseteq Strings,
         NEW setting, SettingFor(entry, setting), NEW id, id = Seen(entry.id, "setting_id"),
         NEW name, name = Seen(entry.name, "label"),
         NEW desc, desc = Seen(entry.desc, "description")
  PROVE  ReadAs(entry, Entered(entry, id, name, desc, setting))
<1>. DEFINE o == Entered(entry, id, name, desc, setting)
            x == [id |-> id, name |-> OrEmpty(name), desc |-> OrEmpty(desc),
                  setting |-> setting.value]
            kept == /\ entry.type \in Kinds /\ Refused \notin {id, name, desc}
                    /\ OrEmpty(id) # <<>> /\ setting.is = "value"
<1>1. CASE o = Error("NotFound") \/ o = Warned
  BY <1>1, PassedOver, Words, Zenon DEF ReadAs
<1>2. CASE o = setting /\ setting.is # "value"
  BY <1>2, Zenon DEF ReadAs, SettingFor
<1>3. CASE o = Value(x) /\ kept
  <2>1. PICK value, choices :
          ChoicesFit(choices) /\ setting.value = SettingOf(entry.type, value, choices)
    BY <1>3, Zenon DEF SettingFor
  <2>2. id # Null /\ id # Refused /\ id # <<>>
    BY <1>3, Zenon DEF OrEmpty
  <2>3. {"setting_id", "label", "description"} \subseteq StringLimits
    BY DEF StringLimits
  <2>4. TextFits(id, Limit["setting_id"])
    BY <2>2, <2>3, SeenFits
  <2>5. TextFits(OrEmpty(name), Limit["label"]) /\ TextFits(OrEmpty(desc), Limit["description"])
    <3>1. /\ name = Null \/ TextFits(name, Limit["label"])
          /\ desc = Null \/ TextFits(desc, Limit["description"])
      BY <1>3, <2>3, SeenFits
    <3>2. TextFits(<<>>, Limit["label"]) /\ TextFits(<<>>, Limit["description"])
      BY <2>3, LimitIs, EmptyFits
    <3>. QED BY <3>1, <3>2 DEF OrEmpty
  <2>6. SchemaFor(x, id, entry.type)
    BY <1>3, <2>1, <2>2, <2>4, <2>5, Zenon DEF SchemaFor
  <2>. HIDE DEF x, kept
  <2>7. Value(x).value = x /\ Coded(Value(x))
    BY ValueIs
  <2>. QED BY <1>3, <2>2, <2>6, <2>7, Zenon DEF ReadAs
<1>4. \/ o = Error("NotFound") \/ o = Warned
      \/ o = setting /\ setting.is # "value"
      \/ o = Value(x) /\ kept
  BY Zenon DEF Entered
<1>. HIDE DEF x, kept
<1>. QED BY <1>1, <1>2, <1>3, <1>4, Zenon

LEMMA EntryIs ==
  ASSUME NEW entry, IsEntry(entry)
  PROVE  ReadAs(entry, ReadEntry(entry))
<1>1. SettingFor(entry, ReadSetting(entry))
  <2>1. IsChoices(entry.choices)
    BY DEF IsEntry, IsChoices
  <2>. QED BY <2>1, SettingIs
<1>2. \E id, name, desc : /\ id = Seen(entry.id, "setting_id") /\ name = Seen(entry.name, "label")
                          /\ desc = Seen(entry.desc, "description")
                          /\ ReadEntry(entry) = Entered(entry, id, name, desc, ReadSetting(entry))
  BY Zenon DEF ReadEntry, Seen
<1>3. {entry.id, entry.name, entry.desc} \subseteq Strings
  BY DEF IsEntry
<1>. QED BY <1>1, <1>2, <1>3, EnteredIs, Zenon

(* What there is of an array, by its entries. *)
SchemasOf(array, schemas) ==
  /\ schemas.ok /\ ~array.null =>
       /\ \A k \in DOMAIN schemas.values : \E i \in DOMAIN array.items :
            /\ ReadEntry(array.items[i]).is = "value"
            /\ schemas.values[k] = ReadEntry(array.items[i]).value
       /\ \A i \in DOMAIN array.items : ReadEntry(array.items[i]).is = "value" =>
            \E k \in DOMAIN schemas.values : schemas.values[k] = ReadEntry(array.items[i]).value
  /\ schemas.ok /\ array.null => schemas.values = <<>>
  /\ schemas.ok => IsList(schemas.values, Limit["settings"])
  /\ ~schemas.ok => schemas.code \in ErrorCodes

LEMMA SchemasAre ==
  ASSUME NEW c \in RegCalls
  PROVE  SchemasOf(c.array, read_schemas(c.array))
<1>. DEFINE array == c.array  read == read_schemas(array)
            outcomes == [i \in DOMAIN array.items |-> ReadEntry(array.items[i])]
<1>1. IsArray(array) /\ \A e \in ToSet(array.items) : IsEntry(e)
  BY PluginAssumption DEF PluginAssumption, IsRegCall
<1>2. \A i \in DOMAIN array.items : ReadAs(array.items[i], ReadEntry(array.items[i]))
  <2>1. \A i \in DOMAIN array.items : array.items[i] \in ToSet(array.items)
    BY DEF ToSet
  <2>. QED BY <1>1, <2>1, EntryIs
<1>3. /\ DOMAIN outcomes = DOMAIN array.items
      /\ \A i \in DOMAIN array.items : outcomes[i] = ReadEntry(array.items[i])
      /\ outcomes = [i \in DOMAIN array.items |-> outcomes[i]]
  OBVIOUS
<1>4. read = ReadArray(array, Limit["settings"], outcomes)
  BY Zenon DEF read_schemas
<1>. HIDE DEF outcomes, array, read
<1>5. outcomes \in Seq(ToSet(outcomes)) /\ Len(outcomes) = Len(array.items)
  BY <1>1, <1>3, MappedIs
<1>6. \A i \in DOMAIN outcomes : Coded(outcomes[i])
  BY <1>2, <1>3, Zenon DEF ReadAs
<1>7. /\ read.ok => IsList(read.values, Limit["settings"])
      /\ ~read.ok => read.code \in ErrorCodes
  <2>1. Limit["settings"] \in Nat
    BY LimitIs DEF CountLimits
  <2>2. ArrayFrom(read, Limit["settings"], outcomes)
    BY <1>1, <1>4, <1>5, <1>6, <2>1, ArrayIs
  <2>. QED BY <2>2, Zenon DEF ArrayFrom
<1>8. CASE TooMany(array, Limit["settings"])
  <2>1. read = [ok |-> FALSE, code |-> "InvalidCount", upto |-> 0]
    BY <1>4, <1>8, Zenon DEF ReadArray
  <2>2. ~read.ok
    BY <2>1
  <2>. QED BY <1>7, <2>2, Zenon DEF SchemasOf, array, read
<1>9. CASE ~TooMany(array, Limit["settings"]) /\ array.null
  <2>1. read = [ok |-> TRUE, values |-> <<>>, upto |-> 0]
    BY <1>4, <1>9, Zenon DEF ReadArray
  <2>2. read.ok /\ read.values = <<>>
    BY <2>1
  <2>. QED BY <1>7, <1>9, <2>2, Zenon DEF SchemasOf, array, read
<1>10. CASE ~TooMany(array, Limit["settings"]) /\ ~array.null
  <2>1. read = Collected(outcomes)
    BY <1>4, <1>10, Zenon DEF ReadArray
  <2>2. CollectedFrom(read, outcomes)
    BY <1>5, <2>1, CollectedIs
  <2>3. read.ok =>
         /\ \A k \in DOMAIN read.values : \E i \in DOMAIN array.items :
              /\ ReadEntry(array.items[i]).is = "value"
              /\ read.values[k] = ReadEntry(array.items[i]).value
         /\ \A i \in DOMAIN array.items : ReadEntry(array.items[i]).is = "value" =>
              \E k \in DOMAIN read.values : read.values[k] = ReadEntry(array.items[i]).value
    <3>1. read.ok =>
           /\ \A k \in DOMAIN read.values : \E i \in DOMAIN outcomes :
                /\ outcomes[i].is = "value" /\ read.values[k] = outcomes[i].value
           /\ \A i \in DOMAIN outcomes : outcomes[i].is = "value" =>
                \E k \in DOMAIN read.values : read.values[k] = outcomes[i].value
      BY <2>2, Zenon DEF CollectedFrom
    <3>. HIDE DEF outcomes, read
    <3>. QED BY <1>3, <3>1
  <2>. QED BY <1>7, <1>10, <2>3, Zenon DEF SchemasOf, array, read
<1>. QED BY <1>8, <1>9, <1>10

(* What is registered is what the array came to, but for the values. *)
Kept(c, schemas) ==
  LET read == read_schemas(c.array)
  IN  /\ Seen(c.reg, "reg_id") \notin {Null, Refused, <<>>}
      /\ read.ok /\ IsList(schemas, Limit["settings"])
      /\ \A i, j \in DOMAIN read.values : i # j => read.values[i].id # read.values[j].id
      /\ DOMAIN schemas = DOMAIN read.values
      /\ \A i \in DOMAIN schemas :
           SchemaFor(schemas[i], read.values[i].id, read.values[i].setting.kind)

RegInv ==
  /\ registered \subseteq RegCalls
  /\ DOMAIN registry = {Seen(c.reg, "reg_id") : c \in registered}
  /\ \A c \in registered : Kept(c, registry[Seen(c.reg, "reg_id")])

LEMMA KeptFirst ==
  ASSUME NEW c \in RegCalls, NEW read, read = read_schemas(c.array), read.ok,
         NEW reg, reg = Seen(c.reg, "reg_id"), reg \notin {Null, Refused, <<>>},
         \A i, j \in DOMAIN read.values : i # j => read.values[i].id # read.values[j].id
  PROVE  Kept(c, read.values)
<1>1. ASSUME NEW k \in DOMAIN read.values
      PROVE  SchemaFor(read.values[k], read.values[k].id, read.values[k].setting.kind)
  <2>1. SchemasOf(c.array, read)
    BY SchemasAre
  <2>2. ~c.array.null
    <3>1. SUFFICES ASSUME c.array.null PROVE FALSE
      OBVIOUS
    <3>2. read.values = <<>>
      BY <2>1, <3>1, Zenon DEF SchemasOf
    <3>. QED BY <3>2
  <2>3. PICK i \in DOMAIN c.array.items :
          /\ ReadEntry(c.array.items[i]).is = "value"
          /\ read.values[k] = ReadEntry(c.array.items[i]).value
    BY <2>1, <2>2, Zenon DEF SchemasOf
  <2>. DEFINE entry == c.array.items[i]
  <2>4. IsEntry(entry)
    BY PluginAssumption DEF PluginAssumption, IsRegCall, ToSet
  <2>5. ReadAs(entry, ReadEntry(entry))
    BY <2>4, EntryIs
  <2>6. PICK id : SchemaFor(read.values[k], id, entry.type)
    BY <2>3, <2>5, Zenon DEF ReadAs
  <2>7. read.values[k].id = id /\ read.values[k].setting.kind = entry.type
    BY <2>6, SchemaIs
  <2>. QED BY <2>6, <2>7
<1>2. IsList(read.values, Limit["settings"])
  BY SchemasAre, Zenon DEF SchemasOf
<1>. QED BY <1>1, <1>2, Zenon DEF Kept

LEMMA KeptAfter ==
  ASSUME NEW c, NEW schemas, Kept(c, schemas), NEW i \in DOMAIN schemas, NEW v
  PROVE  Kept(c, [schemas EXCEPT ![i].setting.value = v])
<1>. DEFINE x == [schemas EXCEPT ![i].setting.value = v]  read == read_schemas(c.array)
<1>1. /\ DOMAIN x = DOMAIN schemas
      /\ x[i] = [schemas[i] EXCEPT !.setting.value = v]
      /\ \A j \in DOMAIN schemas : j # i => x[j] = schemas[j]
  OBVIOUS
<1>. HIDE DEF x
<1>2. \A j \in DOMAIN schemas :
        SchemaFor(schemas[j], read.values[j].id, read.values[j].setting.kind)
  BY Zenon DEF Kept
<1>. HIDE DEF read
<1>3. SchemaFor(x[i], read.values[i].id, read.values[i].setting.kind)
  BY <1>1, <1>2, SchemaIs
<1>4. \A j \in DOMAIN x : SchemaFor(x[j], read.values[j].id, read.values[j].setting.kind)
  BY <1>1, <1>2, <1>3, Zenon
<1>5. IsList(x, Limit["settings"])
  <2>1. schemas \in Seq(ToSet(schemas)) /\ Len(schemas) <= Limit["settings"]
    BY Zenon DEF Kept, IsList
  <2>. DEFINE n == Len(schemas)  X == ToSet(x)
  <2>2. n \in Nat /\ DOMAIN x = 1..n /\ x = [j \in 1..n |-> x[j]]
    BY <1>1, <2>1 DEF x
  <2>3. \A j \in 1..n : x[j] \in X
    BY <2>2 DEF ToSet
  <2>. HIDE DEF n, X
  <2>4. x \in [1..n -> X]
    BY <2>2, <2>3
  <2>5. x \in Seq(X)
    BY <2>2, <2>4, SeqDef
  <2>6. Len(x) = n
    BY <2>2, <2>5
  <2>7. IsSeq(x)
    BY <2>5 DEF IsSeq
  <2>. QED BY <2>1, <2>6, <2>7, ListIs DEF n
<1>. QED BY <1>1, <1>4, <1>5, Zenon DEF Kept, read, x

LEMMA Codes ==
  /\ \A error \in {"DuplicateRegId", "DuplicateId", "NotFound", "UnknownId"} : to_abi(error) # "Ok"
  /\ "NotFound" # "Ok" /\ "WrongType" # "Ok"
BY DEF to_abi

Registrable(reg, read) ==
  /\ reg \notin {Null, Refused, <<>>} /\ read.ok /\ reg \notin DOMAIN registry
  /\ \A i, j \in DOMAIN read.values : i # j => read.values[i].id # read.values[j].id

LEMMA RegOk ==
  ASSUME NEW c \in RegCalls, NEW reg, NEW read, read = read_schemas(c.array),
         RegResult(reg, read) = "Ok"
  PROVE  Registrable(reg, read)
<1>1. ~read.ok => read.code # "Ok"
  <2>1. ~read.ok => read.code \in ErrorCodes
    BY SchemasAre, Zenon DEF SchemasOf
  <2>. QED BY <2>1 DEF ErrorCodes
<1>2. to_abi("DuplicateRegId") # "Ok" /\ to_abi("DuplicateId") # "Ok" /\ "NotFound" # "Ok"
  BY Codes
<1>. QED BY <1>1, <1>2, Zenon DEF RegResult, Registrable

LEMMA RegInit == Init => RegInv
<1>1. Init => registry = <<>> /\ registered = {}
  BY Zenon DEF Init
<1>. QED BY <1>1 DEF RegInv

LEMMA RegRegisters ==
  ASSUME RegInv, Reg
  PROVE  RegInv'
<1>1. PICK c \in RegCalls :
        Registers(c, Read[c.reg, "reg_id"], read_schemas(c.array),
                  RegResult(Read[c.reg, "reg_id"], read_schemas(c.array)),
                  /\ Read[c.reg, "reg_id"] \notin {Null, Refused, <<>>}
                  /\ Warns(c.array, read_schemas(c.array).upto))
  BY Zenon DEF Reg
<1>2. PICK reg : reg = Seen(c.reg, "reg_id")
  BY Zenon
<1>3. PICK read : read = read_schemas(c.array)
  BY Zenon
<1>4. \/ UNCHANGED <<registry, registered>>
      \/ /\ RegResult(reg, read) = "Ok" /\ registry' = Put(registry, reg, read.values)
         /\ registered' = registered \cup {c}
  BY <1>1, <1>2, <1>3, Zenon DEF Registers, Seen
<1>5. CASE UNCHANGED <<registry, registered>>
  BY <1>5, Zenon DEF RegInv
<1>6. CASE /\ RegResult(reg, read) = "Ok" /\ registry' = Put(registry, reg, read.values)
           /\ registered' = registered \cup {c}
  <2>1. /\ reg \notin {Null, Refused, <<>>} /\ read.ok /\ reg \notin DOMAIN registry
        /\ \A i, j \in DOMAIN read.values : i # j => read.values[i].id # read.values[j].id
    <3>1. RegResult(reg, read) = "Ok"
      BY <1>6
    <3>2. c \in RegCalls
      BY <1>1, Zenon
    <3>3. Registrable(reg, read)
      BY <1>3, <3>1, <3>2, RegOk, Zenon
    <3>. QED BY <3>3, Zenon DEF Registrable
  <2>2. /\ DOMAIN registry' = DOMAIN registry \cup {reg} /\ registry'[reg] = read.values
        /\ \A r \in DOMAIN registry : registry'[r] = registry[r]
    BY <1>6, <2>1 DEF Put
  <2>3. Kept(c, registry'[reg])
    BY <1>2, <1>3, <2>1, <2>2, KeptFirst
  <2>4. \A d \in registered : Seen(d.reg, "reg_id") \in DOMAIN registry
    BY DEF RegInv
  <2>5. \A d \in registered' : Kept(d, registry'[Seen(d.reg, "reg_id")])
    BY <1>2, <1>6, <2>2, <2>3, <2>4, Zenon DEF RegInv
  <2>6. registered' \subseteq RegCalls
    BY <1>6 DEF RegInv
  <2>7. DOMAIN registry' = {Seen(d.reg, "reg_id") : d \in registered'}
    BY <1>2, <1>6, <2>2 DEF RegInv
  <2>. QED BY <2>5, <2>6, <2>7, Zenon DEF RegInv
<1>. QED BY <1>4, <1>5, <1>6

LEMMA RegSets ==
  ASSUME RegInv, SetValue
  PROVE  RegInv'
<1>1. PICK reg \in DOMAIN registry : \E v : \E i \in DOMAIN registry[reg] :
        registry' = [registry EXCEPT ![reg][i].setting.value = v] \/ UNCHANGED registry
  BY Zenon DEF SetValue
<1>2. PICK v : \E i \in DOMAIN registry[reg] :
        registry' = [registry EXCEPT ![reg][i].setting.value = v] \/ UNCHANGED registry
  BY <1>1
<1>3. PICK i \in DOMAIN registry[reg] :
        registry' = [registry EXCEPT ![reg][i].setting.value = v] \/ UNCHANGED registry
  BY <1>2
<1>4. registered' = registered
  BY Zenon DEF SetValue
<1>5. CASE UNCHANGED registry
  BY <1>4, <1>5, Zenon DEF RegInv
<1>6. CASE registry' = [registry EXCEPT ![reg][i].setting.value = v]
  <2>1. /\ DOMAIN registry' = DOMAIN registry
        /\ registry'[reg] = [registry[reg] EXCEPT ![i].setting.value = v]
        /\ \A r \in DOMAIN registry : r # reg => registry'[r] = registry[r]
    BY <1>6
  <2>2. \A d \in registered : /\ Seen(d.reg, "reg_id") \in DOMAIN registry
                              /\ Kept(d, registry[Seen(d.reg, "reg_id")])
    BY DEF RegInv
  <2>3. ASSUME NEW d \in registered
        PROVE  Kept(d, registry'[Seen(d.reg, "reg_id")])
    <3>1. CASE Seen(d.reg, "reg_id") = reg
      <4>1. Kept(d, [registry[reg] EXCEPT ![i].setting.value = v])
        BY <2>2, <3>1, KeptAfter
      <4>. QED BY <2>1, <3>1, <4>1
    <3>2. CASE Seen(d.reg, "reg_id") # reg
      BY <2>1, <2>2, <3>2
    <3>. QED BY <3>1, <3>2
  <2>. QED BY <1>4, <2>1, <2>3, Zenon DEF RegInv
<1>. QED BY <1>3, <1>5, <1>6

LEMMA RegStep ==
  ASSUME RegInv, [Next]_vars
  PROVE  RegInv'
<1>1. CASE UNCHANGED <<registry, registered>>
  BY <1>1, Zenon DEF RegInv
<1>2. Next => Reg \/ SetValue \/ UNCHANGED <<registry, registered>>
  BY Zenon DEF Next, GetService, Push, Take, Io, exists, ReadFromHost, BeginRead, ReadSome,
     ReadTrailing, free_url_to_memory, WriteFile, Log, Get, settings
<1>3. UNCHANGED vars => UNCHANGED <<registry, registered>>
  BY DEF vars, settings
<1>. QED BY <1>1, <1>2, <1>3, RegRegisters, RegSets

(* One schema has the id, and a lookup finds it. *)
LEMMA OneSchema ==
  ASSUME NEW schemas, NEW c, Kept(c, schemas), NEW k \in DOMAIN schemas,
         NEW id, NEW kind, SchemaFor(read_schemas(c.array).values[k], id, kind)
  PROVE  HasId(schemas, id) /\ SchemaOf(schemas, id).setting.kind = kind
<1>. DEFINE values == read_schemas(c.array).values
<1>1. /\ \A i, j \in DOMAIN values : i # j => values[i].id # values[j].id
      /\ DOMAIN schemas = DOMAIN values
      /\ \A i \in DOMAIN schemas : SchemaFor(schemas[i], values[i].id, values[i].setting.kind)
  BY Zenon DEF Kept
<1>2. values[k].id = id /\ values[k].setting.kind = kind
  BY SchemaIs
<1>. HIDE DEF values
<1>3. \A i \in DOMAIN schemas : schemas[i].id = values[i].id /\ schemas[i].setting.kind = values[i].setting.kind
  BY <1>1, SchemaIs
<1>4. \A i \in DOMAIN schemas : schemas[i].id = id => i = k
  BY <1>1, <1>2, <1>3
<1>5. ToSet(schemas) = {schemas[i] : i \in DOMAIN schemas}
  BY DEF ToSet
<1>6. schemas[k] \in ToSet(schemas) /\ schemas[k].id = id
  BY <1>2, <1>3, <1>5
<1>7. SchemaOf(schemas, id) \in ToSet(schemas) /\ SchemaOf(schemas, id).id = id
  BY <1>6 DEF SchemaOf
<1>8. SchemaOf(schemas, id) = schemas[k]
  BY <1>4, <1>5, <1>7
<1>. QED BY <1>2, <1>3, <1>6, <1>8 DEF HasId

LEMMA FoundIs ==
  ASSUME NEW reg, reg \in DOMAIN registry, NEW id, HasId(registry[reg], id),
         NEW kind, SchemaOf(registry[reg], id).setting.kind = kind, NEW ext
  PROVE  RegistryValue(reg, ext, id).ok /\ RegistryValue(reg, ext, id).accessor = Accessor(kind)
<1>1. \E value : RegistryValue(reg, ext, id) = [ok |-> TRUE, accessor |-> Accessor(kind), value |-> value]
  BY Zenon DEF RegistryValue
<1>. QED BY <1>1

(* A lookup under good strings comes to what the registry says. *)
LEMMA GotIs ==
  ASSUME NEW raw_reg, NEW raw_ext, NEW raw_id, NEW accessor, NEW kind,
         NEW reg, reg = Seen(raw_reg, "reg_id"), reg # Null, reg # Refused,
         NEW id, id = Seen(raw_id, "setting_id"), id # Null, id # Refused,
         \A ext : RegistryValue(reg, ext, id).ok
                  /\ RegistryValue(reg, ext, id).accessor = Accessor(kind)
  PROVE  Got(accessor, raw_reg, raw_ext, raw_id).result = "Ok"
           <=> Seen(raw_ext, "extension") # Refused /\ accessor = Accessor(kind)
<1>. DEFINE got == Got(accessor, raw_reg, raw_ext, raw_id)
            found == lookup(raw_reg, raw_ext, raw_id)
<1>1. CASE Seen(raw_ext, "extension") = Refused
  <2>1. found = [ok |-> FALSE, error |-> "NotFound"]
    BY <1>1, Zenon DEF lookup, Seen
  <2>2. ~found.ok /\ found.error = "NotFound"
    BY <2>1
  <2>3. got = [result |-> to_abi("NotFound")]
    BY <2>2, Zenon DEF Got
  <2>4. got.result # "Ok"
    BY <2>3, Codes
  <2>. QED BY <1>1, <2>4
<1>2. CASE Seen(raw_ext, "extension") # Refused
  <2>1. \E ext : found = RegistryValue(reg, ext, id)
    BY <1>2, Zenon DEF lookup, Seen
  <2>2. found.ok /\ found.accessor = Accessor(kind)
    BY <2>1, Zenon
  <2>3. CASE accessor = Accessor(kind)
    <3>1. got = [result |-> "Ok", value |-> found.value]
      BY <2>2, <2>3, Zenon DEF Got
    <3>2. got.result = "Ok"
      BY <3>1
    <3>. QED BY <1>2, <2>3, <3>2
  <2>4. CASE accessor # Accessor(kind)
    <3>1. got = [result |-> "WrongType"]
      BY <2>2, <2>4, Zenon DEF Got
    <3>2. got.result # "Ok"
      BY <3>1
    <3>. QED BY <2>4, <3>2
  <2>. QED BY <2>3, <2>4
<1>. QED BY <1>1, <1>2

LEMMA RegFound ==
  ASSUME RegInv, NEW c \in registered, ~c.array.null, NEW i \in DOMAIN c.array.items,
         ReadEntry(c.array.items[i]).is = "value", NEW ext, NEW a
  PROVE  Got(a, c.reg, ext, c.array.items[i].id).result = "Ok"
           <=> Seen(ext, "extension") # Refused /\ a = Accessor(c.array.items[i].type)
<1>. DEFINE entry == c.array.items[i]  kind == entry.type
<1>1. PICK reg : reg = Seen(c.reg, "reg_id")
  BY Zenon
<1>2. PICK read : read = read_schemas(c.array)
  BY Zenon
<1>3. c \in RegCalls /\ reg \in DOMAIN registry /\ Kept(c, registry[reg])
  BY <1>1 DEF RegInv
<1>4. reg # Null /\ reg # Refused /\ read.ok /\ DOMAIN registry[reg] = DOMAIN read.values
  BY <1>1, <1>2, <1>3, Zenon DEF Kept
<1>5. SchemasOf(c.array, read)
  BY <1>2, <1>3, SchemasAre
<1>6. PICK k \in DOMAIN read.values : read.values[k] = ReadEntry(entry).value
  BY <1>4, <1>5, Zenon DEF SchemasOf
<1>7. IsEntry(entry)
  BY <1>3, PluginAssumption DEF PluginAssumption, IsRegCall, ToSet
<1>8. PICK id : /\ id = Seen(entry.id, "setting_id")
                /\ id # Null /\ id # Refused
                /\ SchemaFor(ReadEntry(entry).value, id, kind)
  BY <1>7, EntryIs, Zenon DEF ReadAs
<1>. HIDE DEF kind
<1>9. HasId(registry[reg], id) /\ SchemaOf(registry[reg], id).setting.kind = kind
  <2>1. k \in DOMAIN registry[reg] /\ SchemaFor(read_schemas(c.array).values[k], id, kind)
    BY <1>2, <1>4, <1>6, <1>8, Zenon
  <2>. QED BY <1>3, <2>1, OneSchema
<1>10. \A e : RegistryValue(reg, e, id).ok /\ RegistryValue(reg, e, id).accessor = Accessor(kind)
  BY <1>3, <1>9, FoundIs
<1>. HIDE DEF entry
<1>11. Got(a, c.reg, ext, entry.id).result = "Ok"
         <=> Seen(ext, "extension") # Refused /\ a = Accessor(kind)
  BY <1>1, <1>4, <1>8, <1>10, GotIs
<1>. QED BY <1>11, Zenon DEF entry, kind

(* settings.rs: a registration is all or nothing, and what it registered is found
   under the strings it was registered with, by the accessor of its type alone. *)
THEOREM RegistrationsFound == Spec => []RegisteredIsFound
<1>1. RegInv => RegisteredIsFound
  <2>. SUFFICES ASSUME RegInv PROVE RegisteredIsFound
    OBVIOUS
  <2>1. \A c \in registered : ~c.array.null =>
          \A i \in DOMAIN c.array.items : ReadEntry(c.array.items[i]).is = "value" =>
            \A ext, a : Got(a, c.reg, ext, c.array.items[i].id).result = "Ok"
                         <=> Seen(ext, "extension") # Refused
                             /\ a = Accessor(c.array.items[i].type)
    BY RegFound
  <2>2. DOMAIN registry = {Read[c.reg, "reg_id"] : c \in registered}
    BY Zenon DEF RegInv, Seen
  <2>3. ASSUME NEW c \in registered, ~c.array.null, NEW i \in DOMAIN c.array.items,
               NEW entry, entry = c.array.items[i], ReadEntry(entry).is = "value",
               NEW ext \in Strings, NEW a \in Accessors
        PROVE  (Got(a, c.reg, ext, entry.id).result = "Ok")
                 <=> Read[ext, "extension"] # Refused /\ a = Accessor(entry.type)
    BY <2>1, <2>3, Zenon DEF Seen
  <2>. QED BY <2>2, <2>3, Zenon DEF RegisteredIsFound
<1>. QED BY <1>1, RegInit, RegStep, PTL DEF Spec

-----------------------------------------------------------------------------
(* What every variable is.  The record: its flags are Boolean whatever is pushed. *)

IsFlagged(r) == IsRecord(r) /\ \A flag \in Flags : r[flag] \in BOOLEAN

LEMMA FlagsAccept ==
  ASSUME NEW r, IsFlagged(r), NEW decoded, NEW cut
  PROVE  IsFlagged(accept(r, decoded, cut))
<1>. DEFINE x == accept(r, decoded, cut)
<1>0. IsRecord(r)
  BY DEF IsFlagged
<1>1. Same(x, r, {"invalid_utf8", "truncation"})
  BY <1>0, AcceptIs
<1>2. x.invalid_utf8 \in BOOLEAN
  BY <1>0 DEF accept, IsRecord, Fields
<1>. HIDE DEF x
<1>3. \A flag \in Flags : flag # "invalid_utf8" => x[flag] = r[flag]
  BY <1>1 DEF Same, Fields, Flags
<1>. QED BY <1>1, <1>2, <1>3 DEF IsFlagged, Same, x

LEMMA FlagsNote ==
  ASSUME NEW r, IsFlagged(r), NEW id
  PROVE  IsFlagged(note_id(r, id))
<1>. DEFINE x == note_id(r, id)
<1>0. IsRecord(r)
  BY DEF IsFlagged
<1>1. Same(x, r, {"foreign_record_id"})
  BY <1>0, NoteIs
<1>2. x.foreign_record_id \in BOOLEAN
  BY <1>0 DEF note_id, IsRecord, Fields
<1>. HIDE DEF x
<1>3. \A flag \in Flags : flag # "foreign_record_id" => x[flag] = r[flag]
  BY <1>1 DEF Same, Fields, Flags
<1>. QED BY <1>1, <1>2, <1>3 DEF IsFlagged, Same, x

LEMMA FlagsAdded ==
  ASSUME NEW r, IsFlagged(r), NEW list \in {"tags", "subsongs", "samples", "instruments"},
         NEW entry, NEW cap
  PROVE  IsFlagged(Added(r, list, list, entry, cap))
<1>. DEFINE x == Added(r, list, list, entry, cap)
<1>0. IsRecord(r) /\ list \in Fields \ {"truncation"}
  BY DEF IsFlagged, Fields
<1>1. Same(x, r, {list, "truncation"})
  BY <1>0, AddedIs DEF EntryAdded
<1>. HIDE DEF x
<1>2. \A flag \in Flags : flag \in Fields \ {list, "truncation"}
  BY DEF Fields, Flags
<1>3. \A flag \in Flags : x[flag] = r[flag]
  BY <1>1, <1>2 DEF Same
<1>. QED BY <1>1, <1>3 DEF IsFlagged, Same, x

LEMMA FlagsPushTag ==
  ASSUME NEW r, IsFlagged(r), NEW key, NEW value
  PROVE  IsFlagged(push_tag(r, key, value))
<1>. DEFINE keyless == key.text = <<>>
            unusable == value.kind = "Number" /\ ~is_finite(value.number)
            told == [r EXCEPT !.empty_tag_key = @ \/ keyless, !.non_finite_number = @ \/ unusable]
            added == Added(told, "tags", "tags", [key |-> TextOf(key), value |-> value], Limit["tags"])
<1>0. IsRecord(r)
  BY DEF IsFlagged
<1>1. push_tag(r, key, value) \in {told, added}
  BY Zenon DEF push_tag
<1>. HIDE DEF keyless, unusable
<1>2. Same(told, r, {"empty_tag_key", "non_finite_number"})
  BY <1>0, Zenon DEF Same, IsRecord, Fields
<1>3. told.empty_tag_key \in BOOLEAN /\ told.non_finite_number \in BOOLEAN
  BY <1>0 DEF IsRecord, Fields
<1>. HIDE DEF told
<1>4. \A flag \in Flags : flag \notin {"empty_tag_key", "non_finite_number"} => told[flag] = r[flag]
  BY <1>2 DEF Same, Fields, Flags
<1>5. IsFlagged(told)
  BY <1>2, <1>3, <1>4 DEF IsFlagged, Same
<1>6. IsFlagged(added)
  BY <1>5, FlagsAdded
<1>. QED BY <1>1, <1>5, <1>6

LEMMA FlagsUrl ==
  ASSUME NEW r, IsFlagged(r), NEW value
  PROVE  IsFlagged(create_url(r, value))
<1>. DEFINE url == Sent(value, "url")  a == accept(r, url, "url")  x == create_url(r, value)
            named == [a EXCEPT !.url = TextOf(url)]
<1>1. x \in {a, named}
  BY Zenon DEF create_url, Sent
<1>2. IsFlagged(a)
  BY FlagsAccept
<1>. HIDE DEF a, x
<1>3. \A flag \in Flags : named[flag] = a[flag]
  BY <1>2 DEF IsFlagged, IsRecord, Fields, Flags
<1>4. IsRecord(named)
  BY <1>2, Zenon DEF IsFlagged, IsRecord, Fields
<1>5. IsFlagged(named)
  BY <1>2, <1>3, <1>4 DEF IsFlagged
<1>. QED BY <1>1, <1>2, <1>5 DEF x

LEMMA FlagsSubsong ==
  ASSUME NEW r, IsFlagged(r), NEW id, NEW index, NEW value, NEW length
  PROVE  IsFlagged(add_subsong(r, id, index, value, length))
<1>. DEFINE name == Sent(value, "name")
            entry == [index |-> index, name |-> TextOf(name),
                      length_seconds |-> IF length = "positive" THEN length ELSE "none"]
            y == accept(note_id(r, id), name, "name")
            told == [y EXCEPT !.non_finite_number = @ \/ ~is_finite(length)]
            added == Added(told, "subsongs", "subsongs", entry, Limit["subsongs"])
<1>1. add_subsong(r, id, index, value, length) = added
  BY Zenon DEF add_subsong, Sent
<1>2. IsFlagged(y)
  BY FlagsNote, FlagsAccept
<1>. HIDE DEF entry, y
<1>3. IsRecord(told) /\ \A flag \in Flags : flag # "non_finite_number" => told[flag] = y[flag]
  BY <1>2, Zenon DEF IsFlagged, IsRecord, Fields, Flags
<1>4. told.non_finite_number \in BOOLEAN
  BY <1>2 DEF IsFlagged, IsRecord, Fields
<1>. HIDE DEF told
<1>5. IsFlagged(told)
  BY <1>2, <1>3, <1>4 DEF IsFlagged
<1>6. IsFlagged(added)
  BY <1>5, FlagsAdded
<1>. QED BY <1>1, <1>6

LEMMA FlagsAfter ==
  ASSUME NEW r, IsFlagged(r), NEW p \in Pushes
  PROVE  IsFlagged(After(r, p))
<1>. DEFINE id == IF p.own THEN r.id ELSE r.id - 1
<1>0. p.call \in {"create_url", "set_tag", "set_tag_f64", "add_subsong", "samples", "instruments"}
  BY PluginAssumption DEF PluginAssumption, IsPush
<1>1. CASE p.call = "create_url"
  BY <1>1, FlagsUrl DEF After
<1>2. CASE p.call \in {"set_tag", "set_tag_f64"}
  <2>1. \E y, v : /\ After(r, p) = push_tag(y, Sent(p.tag, "tag_key"), v)
                  /\ \/ y = accept(note_id(r, id), Sent(p.tag, "tag_key"), "tag_key")
                     \/ y = accept(accept(note_id(r, id), Sent(p.tag, "tag_key"), "tag_key"),
                                   Sent(p.data, "tag_value"), "tag_value")
    BY <1>2, Zenon DEF After, set_tag, set_tag_f64, Sent
  <2>2. IsFlagged(note_id(r, id))
    BY FlagsNote
  <2>. QED BY <2>1, <2>2, FlagsAccept, FlagsPushTag
<1>3. CASE p.call = "add_subsong"
  <2>1. After(r, p) = add_subsong(r, id, p.index, p.text, p.length)
    BY <1>3, Zenon DEF After
  <2>. QED BY <2>1, FlagsSubsong
<1>4. CASE p.call \in {"samples", "instruments"}
  <2>1. After(r, p) = add_name(r, id, p.text, p.call)
    BY <1>4 DEF After
  <2>. DEFINE y == accept(note_id(r, id), Sent(p.text, "name"), "name")
  <2>2. add_name(r, id, p.text, p.call) =
          Added(y, p.call, p.call, TextOf(Sent(p.text, "name")), Limit["names"])
    BY Zenon DEF add_name, Sent
  <2>3. IsFlagged(y)
    BY FlagsNote, FlagsAccept
  <2>. HIDE DEF y
  <2>4. IsFlagged(Added(y, p.call, p.call, TextOf(Sent(p.text, "name")), Limit["names"]))
    BY <1>4, <2>3, FlagsAdded
  <2>. QED BY <2>1, <2>2, <2>4
<1>. QED BY <1>0, <1>1, <1>2, <1>3, <1>4

(* What a push leaves in a list fits. *)
LEMMA EntryFits ==
  ASSUME NEW p \in Pushes
  PROVE  /\ KeptTag(p) => IsTagEntry(EntryOf(p))
         /\ p.call = "add_subsong" => IsSubsongEntry(EntryOf(p))
         /\ p.call \in {"samples", "instruments"} => IsMetadataText(EntryOf(p), Limit["name"])
         /\ p.call = "create_url" => IsMetadataText(EntryOf(p), Limit["url"])
<1>0. {"tag_key", "tag_value", "name", "url"} \subseteq StringLimits
  BY DEF StringLimits
<1>1. IsPush(p)
  BY PluginAssumption DEF PluginAssumption
<1>2. CASE KeptTag(p)
  <2>. DEFINE key == Sent(p.tag, "tag_key")  e == EntryOf(p)
  <2>1. /\ p.call \in {"set_tag", "set_tag_f64"} /\ key.text # <<>>
        /\ p.call = "set_tag_f64" => p.number # "nan"
    BY <1>2, Zenon DEF KeptTag, Keyless, IsTag, NotFinite, Sent
  <2>2. IsMetadataText(TextOf(key), Limit["tag_key"])
    <3>1. p.tag \in Strings
      BY <1>1, <2>1 DEF IsPush
    <3>. QED BY <1>0, <3>1, SentFits
  <2>. HIDE DEF key, e
  <2>3. TextOf(key).text # <<>>
    BY <2>1 DEF TextOf
  <2>4. CASE p.call = "set_tag"
    <3>. DEFINE t == TextOf(Sent(p.data, "tag_value"))
    <3>1. e = [key |-> TextOf(key), value |-> [kind |-> "Text", text |-> t]]
      BY <2>4, TagEntry DEF e, key
    <3>2. IsMetadataText(t, Limit["tag_value"])
      <4>1. p.data \in Strings
        BY <1>1, <2>4 DEF IsPush
      <4>. QED BY <1>0, <4>1, SentFits
    <3>. HIDE DEF t
    <3>3. e.key = TextOf(key) /\ e.value.kind = "Text" /\ e.value.text = t
      BY <3>1
    <3>4. IsTagEntry(e)
      BY <2>2, <2>3, <3>2, <3>3, Zenon DEF IsTagEntry
    <3>. QED BY <2>4, <3>4 DEF e, IsTag, KeptTag
  <2>5. CASE p.call = "set_tag_f64"
    <3>1. e = [key |-> TextOf(key), value |-> [kind |-> "Number", number |-> p.number]]
      BY <2>5, TagEntry DEF e, key
    <3>2. p.number \in Numbers \ {"nan"}
      BY <1>1, <2>1, <2>5 DEF IsPush
    <3>3. e.key = TextOf(key) /\ e.value.kind = "Number" /\ e.value.number = p.number
      BY <3>1
    <3>4. IsTagEntry(e)
      BY <2>2, <2>3, <3>2, <3>3, Zenon DEF IsTagEntry
    <3>. QED BY <2>5, <3>4 DEF e
  <2>. QED BY <2>1, <2>4, <2>5
<1>3. CASE p.call = "add_subsong"
  <2>. DEFINE name == Sent(p.text, "name")  e == EntryOf(p)
              length == IF p.length = "positive" THEN p.length ELSE "none"
  <2>1. e = [index |-> p.index, name |-> TextOf(name), length_seconds |-> length]
    BY <1>3, NameEntry
  <2>2. p.text \in Strings /\ p.index \in Nat
    BY <1>1, <1>3 DEF IsPush
  <2>3. IsMetadataText(TextOf(name), Limit["name"])
    BY <1>0, <2>2, SentFits
  <2>4. length \in {"positive", "none"}
    OBVIOUS
  <2>. HIDE DEF name, e, length
  <2>5. e.index = p.index /\ e.name = TextOf(name) /\ e.length_seconds = length
    BY <2>1
  <2>6. IsSubsongEntry(e)
    BY <2>2, <2>3, <2>4, <2>5, Zenon DEF IsSubsongEntry
  <2>7. ~KeptTag(p)
    BY <1>3 DEF KeptTag, IsTag
  <2>. QED BY <1>3, <2>6, <2>7 DEF e
<1>4. CASE p.call \in {"samples", "instruments"}
  <2>1. p.text \in Strings
    BY <1>1, <1>4 DEF IsPush
  <2>2. EntryOf(p) = TextOf(Sent(p.text, "name"))
    BY <1>4, NameEntry
  <2>3. IsMetadataText(EntryOf(p), Limit["name"])
    BY <1>0, <2>1, <2>2, SentFits
  <2>7. ~KeptTag(p)
    BY <1>4 DEF KeptTag, IsTag
  <2>. QED BY <1>4, <2>3, <2>7
<1>5. CASE p.call = "create_url"
  <2>1. p.text \in Strings
    BY <1>1, <1>5 DEF IsPush
  <2>2. EntryOf(p) = TextOf(Sent(p.text, "url"))
    BY <1>5, UrlEntry
  <2>3. IsMetadataText(EntryOf(p), Limit["url"])
    BY <1>0, <2>1, <2>2, SentFits
  <2>7. ~KeptTag(p)
    BY <1>5 DEF KeptTag, IsTag
  <2>. QED BY <1>5, <2>3, <2>7
<1>6. p.call \in {"create_url", "set_tag", "set_tag_f64", "add_subsong", "samples", "instruments"}
  BY <1>1 DEF IsPush
<1>. QED BY <1>2, <1>3, <1>4, <1>5, <1>6

(* A list within its cap, of the entries of pushes in P. *)
LEMMA CappedFits ==
  ASSUME NEW q \in Seq(Pushes), NEW P, NEW list, NEW truncated, NEW cap \in Nat,
         Capped(list, Among(q, P), truncated, cap)
  PROVE  /\ IsList(list, cap)
         /\ \A e \in ToSet(list) : \E p \in Pushes \cap P : e = EntryOf(p)
<1>. DEFINE entries == Among(q, P)
<1>1. /\ entries \in Seq(Pushes) /\ Len(entries) \in Nat
      /\ \A k \in 1..Len(entries) : entries[k] \in P
  BY AmongIs
<1>2. /\ IsSeq(list) /\ Len(list) = (IF Len(entries) < cap THEN Len(entries) ELSE cap)
      /\ Entries(list, entries)
  BY Zenon DEF Capped
<1>. HIDE DEF entries
<1>3. Len(list) <= cap /\ DOMAIN list = 1..Len(list) /\ Len(list) \in Nat /\ Len(list) <= Len(entries)
  BY <1>1, <1>2, SeqLonger
<1>4. \A i \in DOMAIN list : list[i] = EntryOf(entries[i]) /\ entries[i] \in Pushes \cap P
  <2>1. \A i \in DOMAIN list : i \in 1..Len(entries)
    BY <1>1, <1>3
  <2>2. \A i \in 1..Len(entries) : entries[i] \in Pushes
    BY <1>1
  <2>. QED BY <1>1, <1>2, <2>1, <2>2 DEF Entries
<1>5. IsList(list, cap)
  BY <1>2, <1>3, ListIs
<1>. QED BY <1>4, <1>5 DEF ToSet

(* The record, but for its lists. *)
PlainTrack(r) == IsFlagged(r) /\ IsMetadataText(r.url, Limit["url"])

LEMMA PlainAfter ==
  ASSUME NEW r, PlainTrack(r), r.id \in Int, NEW p \in Pushes
  PROVE  PlainTrack(After(r, p))
<1>1. IsFlagged(r) /\ IsRecord(r)
  BY DEF PlainTrack, IsFlagged
<1>2. IsFlagged(After(r, p))
  BY <1>1, FlagsAfter
<1>3. Told(r, After(r, p), p)
  BY <1>1, AfterTold
<1>. DEFINE x == After(r, p)
<1>4. x.url = IF p.call = "create_url" /\ r.url.text = <<>> THEN EntryOf(p) ELSE r.url
  BY <1>3, Zenon DEF Told
<1>5. p.call = "create_url" => IsMetadataText(EntryOf(p), Limit["url"])
  BY EntryFits
<1>. HIDE DEF x
<1>6. IsMetadataText(x.url, Limit["url"])
  BY <1>4, <1>5, Zenon DEF PlainTrack
<1>. QED BY <1>2, <1>6 DEF PlainTrack, x

LEMMA NoTextFits ==
  ASSUME NEW limit \in Nat
  PROVE  IsMetadataText(NoText, limit)
<1>1. NoText.text = <<>> /\ NoText.raw = Null
  BY DEF NoText
<1>. QED BY <1>1, EmptyFits, Zenon DEF IsMetadataText

LEMMA PlainNew ==
  ASSUME NEW n \in Int
  PROVE  PlainTrack(NewTrack(n))
<1>. DEFINE r == NewTrack(n)
<1>1. /\ r.invalid_utf8 = FALSE /\ r.empty_tag_key = FALSE /\ r.non_finite_number = FALSE
      /\ r.foreign_record_id = FALSE
  BY DEF NewTrack
<1>2. IsRecord(r)
  BY NewTrackIs DEF RecordOf
<1>3. r.url = NoText
  BY Zenon DEF NewTrack, NoText
<1>4. "url" \in StringLimits /\ Limit["url"] \in Nat
  BY LimitIs DEF StringLimits
<1>. HIDE DEF r
<1>5. IsMetadataText(r.url, Limit["url"])
  BY <1>3, <1>4, NoTextFits
<1>6. \A flag \in Flags : r[flag] \in BOOLEAN
  BY <1>1 DEF Flags
<1>7. PlainTrack(r)
  BY <1>2, <1>5, <1>6 DEF PlainTrack, IsFlagged
<1>. QED BY <1>7 DEF r

(* A record of what was said is within its limits, as it is and as it is taken. *)
LEMMA RecordTyped ==
  ASSUME NEW r, NEW q, RecordOf(r, q), PlainTrack(r)
  PROVE  IsTrack(r)
<1>1. /\ Limit["tags"] \in Nat /\ Limit["names"] \in Nat /\ Limit["subsongs"] \in Nat
  BY LimitIs DEF CountLimits
<1>2. /\ q \in Seq(Pushes) /\ r.subsong_count = "Reported" /\ r.truncation \subseteq Reports
      /\ Capped(r.tags, Among(q, Tagging), "tags" \in r.truncation, Limit["tags"])
      /\ Capped(r["samples"], Among(q, Calling("samples")), "samples" \in r.truncation,
                Limit["names"])
      /\ Capped(r["instruments"], Among(q, Calling("instruments")),
                "instruments" \in r.truncation, Limit["names"])
      /\ Capped(r.subsongs, Among(q, Calling("add_subsong")), "subsongs" \in r.truncation,
                Limit["subsongs"])
  BY Zenon DEF RecordOf, Digested
<1>3. IsList(r.tags, Limit["tags"]) /\ \A e \in ToSet(r.tags) : IsTagEntry(e)
  <2>1. \A p \in Pushes \cap Tagging : IsTagEntry(EntryOf(p))
    BY EntryFits DEF Tagging
  <2>. QED BY <1>1, <1>2, <2>1, CappedFits
<1>4. IsList(r.subsongs, Limit["subsongs"]) /\ \A e \in ToSet(r.subsongs) : IsSubsongEntry(e)
  <2>1. \A p \in Pushes \cap Calling("add_subsong") : IsSubsongEntry(EntryOf(p))
    BY EntryFits DEF Calling
  <2>. QED BY <1>1, <1>2, <2>1, CappedFits
<1>5. ASSUME NEW list \in {"samples", "instruments"}
      PROVE  /\ IsList(r[list], Limit["names"])
             /\ \A e \in ToSet(r[list]) : IsMetadataText(e, Limit["name"])
  <2>1. \A p \in Pushes \cap Calling(list) : IsMetadataText(EntryOf(p), Limit["name"])
    BY EntryFits DEF Calling
  <2>2. Capped(r[list], Among(q, Calling(list)), list \in r.truncation, Limit["names"])
    BY <1>2
  <2>. QED BY <1>1, <1>2, <2>1, <2>2, CappedFits
<1>6. IsMetadataText(r.url, Limit["url"]) /\ \A flag \in Flags : r[flag] \in BOOLEAN
  BY Zenon DEF PlainTrack, IsFlagged
<1>7. r.subsong_count \in {"Reported", "Assumed"}
  BY <1>2
<1>. QED BY <1>2, <1>3, <1>4, <1>5, <1>6, <1>7, Zenon DEF IsTrack, Reports

LEMMA TakenTyped ==
  ASSUME NEW r, IsTrack(r), IsRecord(r)
  PROVE  IsTrack(finish(r)) /\ finish(r).id = r.id
<1>. DEFINE x == finish(r)
            song == [index |-> 0, name |-> NoText, length_seconds |-> "none"]
<1>1. /\ Same(x, r, {"subsongs", "subsong_count"})
      /\ r.subsongs # <<>> => x = r
      /\ r.subsongs = <<>> => x.subsong_count = "Assumed" /\ x.subsongs = <<song>>
  BY FinishIs
<1>2. /\ x.id = r.id /\ x.url = r.url /\ x.tags = r.tags /\ x.truncation = r.truncation
      /\ \A list \in {"samples", "instruments"} : x[list] = r[list]
      /\ \A flag \in Flags : x[flag] = r[flag]
  BY <1>1 DEF Same, Fields, Flags
<1>3. IsSubsongEntry(song)
  <2>1. "name" \in StringLimits /\ Limit["name"] \in Nat
    BY LimitIs DEF StringLimits
  <2>2. IsMetadataText(NoText, Limit["name"])
    BY <2>1, NoTextFits
  <2>3. song.index = 0 /\ song.name = NoText /\ song.length_seconds = "none"
    OBVIOUS
  <2>. HIDE DEF song
  <2>. QED BY <2>2, <2>3 DEF IsSubsongEntry
<1>. HIDE DEF x, song
<1>4. IsList(<<song>>, Limit["subsongs"]) /\ ToSet(<<song>>) = {song}
  <2>1. Limit["subsongs"] \in Nat \ {0}
    BY LimitIs DEF CountLimits
  <2>2. <<song>> \in Seq({song}) /\ Len(<<song>>) = 1
    OBVIOUS
  <2>3. IsSeq(<<song>>)
    BY <2>2 DEF IsSeq
  <2>4. ToSet(<<song>>) = {song}
    BY DEF ToSet
  <2>5. ASSUME NEW list, IsSeq(list), Len(list) = 1
        PROVE  IsList(list, Limit["subsongs"])
    <3>1. Len(list) <= Limit["subsongs"]
      BY <2>1, <2>5
    <3>. QED BY <2>5, <3>1, ListIs
  <2>. QED BY <2>2, <2>3, <2>4, <2>5
<1>5. CASE r.subsongs # <<>>
  BY <1>1, <1>2, <1>5 DEF x
<1>6. CASE r.subsongs = <<>>
  <2>1. IsList(x.subsongs, Limit["subsongs"]) /\ \A e \in ToSet(x.subsongs) : IsSubsongEntry(e)
    BY <1>1, <1>3, <1>4, <1>6
  <2>2. x.subsong_count \in {"Reported", "Assumed"}
    BY <1>1, <1>6
  <2>3. IsTrack(x)
    BY <1>2, <2>1, <2>2, Zenon DEF IsTrack
  <2>. QED BY <1>2, <2>3 DEF x
<1>. QED BY <1>5, <1>6

-----------------------------------------------------------------------------
(* What a call came to. *)

LEMMA ReadAnswer ==
  ASSUME NEW bytes \in Contents, NEW ended \in Contents, NEW shrunk \in BOOLEAN,
         HandOver(bytes, ended, shrunk)
  PROVE  IsAnswer(answer')
<1>1. Limit["io_data"] \in Nat
  BY LimitIs DEF CountLimits
<1>2. CASE answer' = Empty
  <2>1. /\ answer'.call = "read_url_to_memory" /\ answer'.data = <<>> /\ answer'.ended = <<>>
        /\ answer'.shrunk = FALSE
    BY <1>2 DEF Empty
  <2>2. <<>> \in Seq(Nat) /\ Len(<<>>) <= Limit["io_data"]
    BY <1>1
  <2>. QED BY <2>1, <2>2, Zenon DEF IsAnswer
<1>3. CASE /\ Len(bytes) \in 1..Limit["io_data"]
           /\ answer' = [Empty EXCEPT !.data = bytes, !.ended = ended, !.shrunk = shrunk]
  <2>1. /\ answer'.call = "read_url_to_memory" /\ answer'.data = bytes /\ answer'.ended = ended
        /\ answer'.shrunk = shrunk
    BY <1>3 DEF Empty
  <2>2. bytes \in Seq(Nat) /\ ended \in Seq(Nat) /\ Len(bytes) <= Limit["io_data"]
    BY <1>1, <1>3 DEF Contents
  <2>. QED BY <2>1, <2>2, Zenon DEF IsAnswer
<1>. QED BY <1>2, <1>3, Zenon DEF HandOver

LEMMA IoAnswer ==
  ASSUME IoInv, Io
  PROVE  UNCHANGED answer \/ IsAnswer(answer')
<1>0. FALSE \in BOOLEAN
  OBVIOUS
<1>1. CASE exists
  <2>1. PICK is \in BOOLEAN : answer' = [call |-> "exists", is |-> is]
    BY <1>1, Zenon DEF exists
  <2>2. answer'.call = "exists" /\ answer'.is \in BOOLEAN
    BY <2>1
  <2>. QED BY <2>2, Zenon DEF IsAnswer
<1>2. CASE ReadFromHost
  <2>1. PICK n \in 0..(Limit["io_data"] + 1) :
          HandOver([i \in 1..n |-> 0], [i \in 1..n |-> 0], FALSE)
    BY <1>2 DEF ReadFromHost
  <2>2. n \in Nat
    BY LimitIs DEF CountLimits
  <2>3. [i \in 1..n |-> 0] \in Contents
    BY <2>2 DEF Contents
  <2>. QED BY <1>0, <2>1, <2>3, ReadAnswer
<1>3. CASE BeginRead
  <2>1. UNCHANGED answer \/ HandOver(<<>>, <<>>, FALSE)
    BY <1>3, Zenon DEF BeginRead
  <2>. QED BY <1>0, <2>1, NoData, ReadAnswer
<1>4. CASE ReadSome
  <2>1. UNCHANGED answer \/ HandOver(<<>>, <<>>, FALSE)
    BY <1>4, Zenon DEF ReadSome
  <2>. QED BY <1>0, <2>1, NoData, ReadAnswer
<1>5. CASE ReadTrailing
  <2>1. ReadingOf(reading, file) /\ file \in Contents
    BY <1>5 DEF ReadTrailing, IoInv, NotReading
  <2>2. PICK bytes \in {reading.bytes, <<>>} : HandOver(bytes, file, reading.shrunk)
    BY <1>5, Zenon DEF ReadTrailing
  <2>3. bytes \in Contents /\ reading.shrunk \in BOOLEAN
    BY <2>1, NoData DEF ReadingOf
  <2>. QED BY <2>1, <2>2, <2>3, ReadAnswer
<1>6. CASE free_url_to_memory
  <2>1. answer' = NoAnswer
    BY <1>6, Zenon DEF free_url_to_memory
  <2>2. answer'.call = "none"
    BY <2>1 DEF NoAnswer
  <2>. QED BY <2>2, Zenon DEF IsAnswer
<1>. QED BY <1>1, <1>2, <1>3, <1>4, <1>5, <1>6 DEF Io

Levels == {"Trace", "Debug", "Info", "Warn", "Error", "Fatal"}

LEMMA LevelIs ==
  ASSUME NEW raw
  PROVE  from_raw(raw) \in Levels
<1>. DEFINE levels == <<"Trace", "Debug", "Info", "Warn", "Error", "Fatal">>
<1>1. \A i \in DOMAIN levels : levels[i] \in Levels
  BY DEF Levels
<1>2. "Info" \in Levels
  BY DEF Levels
<1>3. from_raw(raw) = IF raw + 1 \in DOMAIN levels THEN levels[raw + 1] ELSE "Info"
  BY Zenon DEF from_raw
<1>. HIDE DEF levels
<1>. QED BY <1>1, <1>2, <1>3

LEMMA LineFits ==
  ASSUME NEW level, NEW file_name \in Strings, NEW line \in Int, NEW text \in Strings
  PROVE  LET x == LogWrite(level, file_name, line, text) IN x = NoLine \/ IsLine(x)
<1>. DEFINE x == LogWrite(level, file_name, line, text)
            file_text == Seen(file_name, "log_file")  message == Seen(text, "log_message")
            number == IF line < 0 THEN 0 ELSE line
<1>1. \/ x = NoLine
      \/ /\ file_text # Refused /\ message \notin {Null, Refused}
         /\ x = [level |-> from_raw(level), file |-> file_text, line |-> number,
                 message |-> message]
  BY Zenon DEF LogWrite, Seen
<1>2. {"log_file", "log_message"} \subseteq StringLimits
  BY DEF StringLimits
<1>3. file_text \in {Null, Refused} \/ TextFits(file_text, Limit["log_file"])
  BY <1>2, SeenFits
<1>4. message \in {Null, Refused} \/ TextFits(message, Limit["log_message"])
  BY <1>2, SeenFits
<1>5. number \in Nat
  OBVIOUS
<1>6. from_raw(level) \in Levels
  BY LevelIs
<1>. HIDE DEF x, file_text, message, number
<1>7. ASSUME file_text # Refused, message \notin {Null, Refused},
             x = [level |-> from_raw(level), file |-> file_text, line |-> number,
                  message |-> message]
      PROVE  IsLine(x)
  <2>1. /\ x.level = from_raw(level) /\ x.file = file_text /\ x.line = number
        /\ x.message = message
    BY <1>7
  <2>2. file_text = Null \/ TextFits(file_text, Limit["log_file"])
    BY <1>3, <1>7
  <2>3. TextFits(message, Limit["log_message"])
    BY <1>4, <1>7
  <2>. QED BY <1>5, <1>6, <2>1, <2>2, <2>3, Zenon DEF IsLine, Levels
<1>8. x = NoLine \/ IsLine(x)
  BY <1>1, <1>7
<1>. QED BY <1>8, Zenon DEF x

LEMMA LogAnswer ==
  ASSUME Log
  PROVE  IsAnswer(answer')
<1>1. PICK c \in LogCalls : answer' = [call |-> "log", with |-> c, line |-> LogShim(c)]
  BY Zenon DEF Log
<1>2. answer'.call = "log" /\ answer'.with = c /\ answer'.line = LogShim(c)
  BY <1>1
<1>3. IsLogCall(c)
  BY PluginAssumption, Zenon DEF PluginAssumption
<1>4. LogShim(c) = NoLine \/ IsLine(LogShim(c))
  <2>. DEFINE fit == IF Len(c.formatted) < ShimBuffer THEN Len(c.formatted) ELSE ShimBuffer - 1
              text == SubSeq(c.formatted, 1, fit)
  <2>1. LogShim(c) = NoLine \/ LogShim(c) = LogWrite(c.level, c.file, c.line, text)
    BY Zenon DEF LogShim
  <2>2. c.file \in Strings /\ c.line \in Int /\ c.formatted \in Seq(Bytes)
        /\ \A n \in 0..Len(c.formatted) : SubSeq(c.formatted, 1, n) \in Strings
    BY <1>3, Zenon DEF IsLogCall
  <2>3. text \in Strings
    <3>1. Limit["log_message"] \in Nat
      BY LimitIs DEF StringLimits
    <3>2. Len(c.formatted) \in Nat
      BY <2>2
    <3>3. fit \in 0..Len(c.formatted)
      BY <3>1, <3>2 DEF ShimBuffer
    <3>. HIDE DEF fit
    <3>. QED BY <2>2, <3>3
  <2>. HIDE DEF text
  <2>. QED BY <2>1, <2>2, <2>3, LineFits
<1>. QED BY <1>2, <1>4, Zenon DEF IsAnswer

LEMMA CodesAre ==
  /\ \A error \in {"DuplicateRegId", "DuplicateId", "NotFound", "UnknownId"} :
       to_abi(error) \in ReturnCodes
  /\ ErrorCodes \cup {"NotFound", "WrongType", "Ok"} \subseteq ReturnCodes
BY DEF to_abi, ReturnCodes, ErrorCodes

LEMMA RegAnswer ==
  ASSUME Reg
  PROVE  IsAnswer(answer')
<1>0. PICK c \in RegCalls : \E result :
        /\ result = RegResult(Seen(c.reg, "reg_id"), read_schemas(c.array))
        /\ \/ answer' = [call |-> "reg", result |-> result]
           \/ answer' = [call |-> "reg", result |-> "NotFound"]
  BY Zenon DEF Reg, Registers, Seen
<1>1. PICK result :
        /\ result = RegResult(Seen(c.reg, "reg_id"), read_schemas(c.array))
        /\ \/ answer' = [call |-> "reg", result |-> result]
           \/ answer' = [call |-> "reg", result |-> "NotFound"]
  BY <1>0, Zenon
<1>2. PICK read : read = read_schemas(c.array)
  BY Zenon
<1>3. ~read.ok => read.code \in ErrorCodes
  <2>1. SchemasOf(c.array, read)
    BY <1>2, SchemasAre
  <2>. QED BY <2>1, Zenon DEF SchemasOf
<1>4. result = RegResult(Seen(c.reg, "reg_id"), read)
  BY <1>1, <1>2, Zenon
<1>5. \/ ~read.ok /\ result = read.code
      \/ result \in {"NotFound", to_abi("DuplicateRegId"), to_abi("DuplicateId"), "Ok"}
  BY <1>4, Zenon DEF RegResult
<1>6. result \in ReturnCodes /\ "NotFound" \in ReturnCodes
  BY <1>3, <1>5, CodesAre
<1>7. answer'.call = "reg" /\ answer'.result \in ReturnCodes
  BY <1>1, <1>6
<1>. QED BY <1>7, Zenon DEF IsAnswer

LEMMA GetAnswer ==
  ASSUME Get
  PROVE  IsAnswer(answer')
<1>1. PICK l \in Lookups : answer' = [call |-> "get", got |-> Got(l.accessor, l.reg, l.ext, l.id)]
  BY Zenon DEF Get
<1>. DEFINE got == Got(l.accessor, l.reg, l.ext, l.id)  found == lookup(l.reg, l.ext, l.id)
<1>2. found.ok \/ found.error \in {"NotFound", "UnknownId"}
  <2>1. \/ found = [ok |-> FALSE, error |-> "NotFound"]
        \/ found = [ok |-> FALSE, error |-> "UnknownId"]
        \/ \E accessor, value : found = [ok |-> TRUE, accessor |-> accessor, value |-> value]
    BY Zenon DEF lookup, RegistryValue
  <2>. HIDE DEF found
  <2>. QED BY <2>1
<1>3. \/ ~found.ok /\ got = [result |-> to_abi(found.error)]
      \/ got = [result |-> "WrongType"]
      \/ \E value : got = [result |-> "Ok", value |-> value]
  BY Zenon DEF Got
<1>. HIDE DEF got, found
<1>4. got.result \in {to_abi("NotFound"), to_abi("UnknownId"), "WrongType", "Ok"}
  BY <1>2, <1>3
<1>5. got.result \in ReturnCodes
  BY <1>4, CodesAre
<1>6. answer'.call = "get" /\ answer'.got = got
  BY <1>1 DEF got
<1>. QED BY <1>5, <1>6, Zenon DEF IsAnswer

LEMMA AnswerStep ==
  ASSUME IoInv, IsAnswer(answer), track.id \in Nat, [Next]_vars
  PROVE  IsAnswer(answer')
<1>1. CASE GetService
  <2>1. PICK null \in BOOLEAN : answer' = [call |-> "get_service", null |-> null]
    BY <1>1, Zenon DEF GetService
  <2>2. answer'.call = "get_service" /\ answer'.null \in BOOLEAN
    BY <2>1
  <2>. QED BY <2>2, Zenon DEF IsAnswer
<1>2. CASE Push
  <2>1. answer' = [call |-> "push", id |-> track.id]
    BY <1>2, Zenon DEF Push
  <2>2. answer'.call = "push" /\ answer'.id \in Nat
    BY <2>1
  <2>. QED BY <2>2, Zenon DEF IsAnswer
<1>3. CASE UNCHANGED answer
  BY <1>3
<1>4. Next => Io \/ GetService \/ Push \/ Log \/ Reg \/ Get \/ UNCHANGED answer
  BY AnswerOf
<1>5. UNCHANGED vars => UNCHANGED answer
  BY DEF vars
<1>. QED BY <1>1, <1>2, <1>3, <1>4, <1>5, IoAnswer, LogAnswer, RegAnswer, GetAnswer

-----------------------------------------------------------------------------
(* What is registered stays registered, but for its values. *)
LEMMA RegisteredStays ==
  ASSUME Next
  PROVE  registered \subseteq registered'
<1>1. CASE Reg
  <2>1. PICK c : registered' = registered \/ registered' = registered \cup {c}
    BY <1>1, Zenon DEF Reg, Registers
  <2>. QED BY <2>1
<1>2. CASE UNCHANGED registered
  BY <1>2
<1>. QED BY <1>1, <1>2, Zenon DEF Next, GetService, Push, Take, Io, exists, ReadFromHost,
     BeginRead, ReadSome, ReadTrailing, free_url_to_memory, WriteFile, Log, Get, SetValue, settings

(* A setting of the registry, by its place. *)
SettingAt(reg, i, id, kind) ==
  /\ reg \in DOMAIN registry /\ i \in DOMAIN registry[reg]
  /\ registry[reg][i].id = id /\ registry[reg][i].setting.kind = kind

LEMMA KeptAs ==
  ASSUME NEW c, NEW schemas, Kept(c, schemas), NEW i \in DOMAIN schemas,
         NEW read, read = read_schemas(c.array)
  PROVE  schemas[i].id = read.values[i].id /\ schemas[i].setting.kind = read.values[i].setting.kind
<1>1. SchemaFor(schemas[i], read.values[i].id, read.values[i].setting.kind)
  BY Zenon DEF Kept
<1>. QED BY <1>1, SchemaIs

LEMMA SettingStays ==
  ASSUME RegInv, RegInv', registered \subseteq registered',
         NEW reg, NEW i, NEW id, NEW kind, SettingAt(reg, i, id, kind)
  PROVE  SettingAt(reg, i, id, kind)'
<1>1. PICK c \in registered : reg = Seen(c.reg, "reg_id")
  BY Zenon DEF RegInv, SettingAt
<1>2. Kept(c, registry[reg]) /\ Kept(c, registry'[reg]) /\ reg \in DOMAIN registry'
  <2>1. Seen(c.reg, "reg_id") \in {Seen(d.reg, "reg_id") : d \in registered'}
    OBVIOUS
  <2>. QED BY <1>1, <2>1, Zenon DEF RegInv
<1>3. PICK read : read = read_schemas(c.array)
  BY Zenon
<1>4. DOMAIN registry[reg] = DOMAIN read.values /\ DOMAIN registry'[reg] = DOMAIN read.values
  BY <1>2, <1>3, Zenon DEF Kept
<1>5. i \in DOMAIN registry[reg] /\ i \in DOMAIN registry'[reg]
  BY <1>4, Zenon DEF SettingAt
<1>6. /\ registry[reg][i].id = read.values[i].id
      /\ registry[reg][i].setting.kind = read.values[i].setting.kind
  BY <1>2, <1>3, <1>5, KeptAs
<1>7. /\ registry'[reg][i].id = read.values[i].id
      /\ registry'[reg][i].setting.kind = read.values[i].setting.kind
  BY <1>2, <1>3, <1>5, KeptAs
<1>. QED BY <1>2, <1>5, <1>6, <1>7, Zenon DEF SettingAt

(* A value for an extension. *)
OverrideAt(reg, i, id, kind, ext, v, key, value) ==
  /\ SettingAt(reg, i, id, kind)
  /\ ext \in Extensions /\ v \in HostValues
  /\ Normalized(ext) # <<>> /\ key = <<reg, Normalized(ext), id>>
  /\ v.accessor = Accessor(kind) /\ v.value = value

LEMMA OverrideIs ==
  ASSUME NEW key, NEW value, IsOverride(key, value)
  PROVE  \E reg, i, id, kind, ext, v : OverrideAt(reg, i, id, kind, ext, v, key, value)
<1>1. PICK reg \in DOMAIN registry, ext \in Extensions :
        \E v \in HostValues : \E i \in DOMAIN registry[reg] :
          /\ Normalized(ext) # <<>> /\ key = <<reg, Normalized(ext), registry[reg][i].id>>
          /\ v.accessor = Accessor(registry[reg][i].setting.kind) /\ v.value = value
  BY Zenon DEF IsOverride
<1>2. PICK v \in HostValues : \E i \in DOMAIN registry[reg] :
          /\ Normalized(ext) # <<>> /\ key = <<reg, Normalized(ext), registry[reg][i].id>>
          /\ v.accessor = Accessor(registry[reg][i].setting.kind) /\ v.value = value
  BY <1>1, Zenon
<1>3. PICK i \in DOMAIN registry[reg] :
          /\ Normalized(ext) # <<>> /\ key = <<reg, Normalized(ext), registry[reg][i].id>>
          /\ v.accessor = Accessor(registry[reg][i].setting.kind) /\ v.value = value
  BY <1>2, Zenon
<1>4. SettingAt(reg, i, registry[reg][i].id, registry[reg][i].setting.kind)
  BY Zenon DEF SettingAt
<1>5. OverrideAt(reg, i, registry[reg][i].id, registry[reg][i].setting.kind, ext, v, key, value)
  BY <1>1, <1>3, <1>4, Zenon DEF OverrideAt
<1>. QED BY <1>5, Zenon

OverridesFit == \A key \in DOMAIN overrides : IsOverride(key, overrides[key])

LEMMA OverrideStays ==
  ASSUME RegInv, RegInv', registered \subseteq registered', NEW key, NEW value,
         IsOverride(key, value)
  PROVE  IsOverride(key, value)'
<1>1. PICK reg, i, id, kind, ext, v : OverrideAt(reg, i, id, kind, ext, v, key, value)
  BY OverrideIs, Zenon
<1>2. SettingAt(reg, i, id, kind)'
  <2>1. SettingAt(reg, i, id, kind)
    BY <1>1, Zenon DEF OverrideAt
  <2>. QED BY <2>1, SettingStays
<1>3. OverrideAt(reg, i, id, kind, ext, v, key, value)'
  BY <1>1, <1>2, Zenon DEF OverrideAt
<1>. QED BY <1>3, Zenon DEF IsOverride, OverrideAt, SettingAt

LEMMA OverridesStep ==
  ASSUME RegInv, RegInv', OverridesFit, [Next]_vars
  PROVE  OverridesFit'
<1>1. CASE UNCHANGED overrides /\ Next
  BY <1>1, RegisteredStays, OverrideStays, Zenon DEF OverridesFit
<1>2. CASE SetValue /\ ~UNCHANGED overrides
  <2>1. PICK reg \in DOMAIN registry, ext \in Extensions :
          \E v \in HostValues : \E i \in DOMAIN registry[reg] :
            /\ Accessor(registry[reg][i].setting.kind) = v.accessor
            /\ Normalized(ext) # <<>>
            /\ overrides' = Put(overrides, <<reg, Normalized(ext), registry[reg][i].id>>, v.value)
    BY <1>2, Zenon DEF SetValue
  <2>2. PICK v \in HostValues : \E i \in DOMAIN registry[reg] :
            /\ Accessor(registry[reg][i].setting.kind) = v.accessor
            /\ Normalized(ext) # <<>>
            /\ overrides' = Put(overrides, <<reg, Normalized(ext), registry[reg][i].id>>, v.value)
    BY <2>1
  <2>3. PICK i \in DOMAIN registry[reg] :
            /\ Accessor(registry[reg][i].setting.kind) = v.accessor
            /\ Normalized(ext) # <<>>
            /\ overrides' = Put(overrides, <<reg, Normalized(ext), registry[reg][i].id>>, v.value)
    BY <2>2
  <2>. DEFINE new == <<reg, Normalized(ext), registry[reg][i].id>>
  <2>4. IsOverride(new, v.value)
    BY <2>3, Zenon DEF IsOverride
  <2>5. PICK key : key = new
    OBVIOUS
  <2>6. overrides' = Put(overrides, key, v.value) /\ IsOverride(key, v.value)
    BY <2>3, <2>4, <2>5
  <2>. HIDE DEF new
  <2>7. /\ DOMAIN overrides' = DOMAIN overrides \cup {key} /\ overrides'[key] = v.value
        /\ \A k \in DOMAIN overrides : k # key => overrides'[k] = overrides[k]
    BY <2>6 DEF Put
  <2>8. \A k \in DOMAIN overrides' : IsOverride(k, overrides'[k])
    BY <2>6, <2>7 DEF OverridesFit
  <2>9. registered \subseteq registered'
    BY <1>2, RegisteredStays DEF Next
  <2>10. ASSUME NEW k \in DOMAIN overrides', NEW value, value = overrides'[k]
         PROVE  IsOverride(k, value)'
    BY <2>8, <2>9, <2>10, OverrideStays
  <2>. QED BY <2>10, Zenon DEF OverridesFit
<1>3. CASE UNCHANGED vars
  <2>1. registry' = registry /\ overrides' = overrides
    BY <1>3 DEF vars, settings
  <2>2. ASSUME NEW key \in DOMAIN overrides
        PROVE  IsOverride(key, overrides[key])'
    <3>1. IsOverride(key, overrides[key])
      BY Zenon DEF OverridesFit
    <3>. QED BY <2>1, <3>1 DEF IsOverride
  <2>. QED BY <2>1, <2>2 DEF OverridesFit
<1>4. Next => SetValue \/ UNCHANGED overrides
  BY Zenon DEF Next, GetService, Push, Take, Io, exists, ReadFromHost, BeginRead, ReadSome,
     ReadTrailing, free_url_to_memory, WriteFile, Log, Reg, Get, settings
<1>. QED BY <1>1, <1>2, <1>3, <1>4

-----------------------------------------------------------------------------
(* What changes the counts. *)
LEMMA CountsStay ==
  ASSUME Next
  PROVE  /\ calls' = calls \/ (calls < MaxCalls /\ calls' = calls + 1)
         /\ writes' = writes \/ (writes < MaxWrites /\ writes' = writes + 1)
         /\ UNCHANGED vtables \/ GetService
         /\ UNCHANGED requests
         /\ UNCHANGED file \/ WriteFile
BY Zenon DEF Next, GetService, Push, Take, Io, exists, ReadFromHost, BeginRead, ReadSome,
   ReadTrailing, free_url_to_memory, WriteFile, Log, Reg, Get, SetValue, Calls, metadata, plugin,
   io, settings

CountInv ==
  /\ requests \in Requests /\ vtables \subseteq DOMAIN ApiVersion
  /\ calls \in 0..MaxCalls /\ writes \in 0..MaxWrites /\ Len(file) <= Capacity

LEMMA CountStep ==
  ASSUME CountInv, IoInv, [Next]_vars
  PROVE  CountInv'
<1>1. CASE Next
  <2>0. {MaxCalls, MaxWrites, Capacity} \subseteq Nat
    BY ServicesAssumption DEF ServicesAssumption
  <2>1. calls' \in 0..MaxCalls /\ writes' \in 0..MaxWrites
    BY <1>1, <2>0, CountsStay DEF CountInv
  <2>2. requests' \in Requests
    BY <1>1, CountsStay DEF CountInv
  <2>3. vtables' \subseteq DOMAIN ApiVersion
    <3>1. CASE GetService
      <4>1. PICK r \in requests : vtables' = vtables \/ vtables' = vtables \cup {r.service}
        BY <3>1, Zenon DEF GetService
      <4>2. r.service \in DOMAIN ApiVersion
        BY PluginAssumption DEF PluginAssumption, CountInv
      <4>. QED BY <4>1, <4>2 DEF CountInv
    <3>. QED BY <1>1, <3>1, CountsStay DEF CountInv
  <2>4. Len(file') <= Capacity
    <3>1. CASE WriteFile
      <4>1. file \in Seq(Nat) /\ Len(file) \in Nat /\ Len(file) <= Capacity
        BY DEF IoInv, Contents, CountInv
      <4>2. CASE Len(file) < Capacity /\ file' = Append(file, writes')
        <5>1. Len(file') = Len(file) + 1
          <6>1. writes' \in Nat
            BY <2>0, <2>1
          <6>. QED BY <4>1, <4>2, <6>1, AppendProperties
        <5>. QED BY <2>0, <4>1, <4>2, <5>1
      <4>3. CASE file # <<>> /\ file' = Front(file)
        <5>1. Len(file') < Len(file) /\ file' \in Seq(Nat)
          BY <4>1, <4>3, FrontIs
        <5>2. Len(file') \in Nat
          BY <5>1
        <5>. QED BY <2>0, <4>1, <5>1, <5>2
      <4>. QED BY <3>1, <4>2, <4>3 DEF WriteFile
    <3>. QED BY <1>1, <3>1, CountsStay DEF CountInv
  <2>. QED BY <2>1, <2>2, <2>3, <2>4 DEF CountInv
<1>2. CASE UNCHANGED vars
  <2>1. UNCHANGED <<requests, vtables, calls, writes, file>>
    BY <1>2 DEF vars, plugin, io
  <2>. QED BY <2>1 DEF CountInv
<1>. QED BY <1>1, <1>2

(* The record there is, and the one before it. *)
TrackInv ==
  /\ takes \in 0..MaxTakes /\ track.id = takes + 1 /\ PlainTrack(track)
  /\ IsTrack(taken.record) /\ taken.record.id = takes /\ taken.said \in Seq(Pushes)

LEMMA NewIs ==
  ASSUME NEW n \in Int
  PROVE  /\ NewTrack(n).id = n /\ PlainTrack(NewTrack(n)) /\ IsRecord(NewTrack(n))
         /\ IsTrack(NewTrack(n))
<1>1. NewTrack(n).id = n
  BY DEF NewTrack
<1>2. PlainTrack(NewTrack(n)) /\ RecordOf(NewTrack(n), <<>>)
  BY PlainNew, NewTrackIs
<1>. QED BY <1>1, <1>2, RecordTyped DEF RecordOf

LEMMA TrackInit == Init => TrackInv
<1>. SUFFICES ASSUME Init PROVE TrackInv
  OBVIOUS
<1>1. /\ track = NewTrack(1) /\ takes = 0
      /\ taken = [record |-> finish(NewTrack(0)), said |-> <<>>]
  BY Zenon DEF Init
<1>2. taken.record = finish(NewTrack(0)) /\ taken.said = <<>>
  BY <1>1
<1>3. track.id = 1 /\ PlainTrack(track)
  BY <1>1, NewIs
<1>4. NewTrack(0).id = 0 /\ IsRecord(NewTrack(0)) /\ IsTrack(NewTrack(0))
  BY NewIs
<1>5. IsTrack(taken.record) /\ taken.record.id = 0
  BY <1>2, <1>4, TakenTyped
<1>6. taken.said \in Seq(Pushes)
  BY <1>2
<1>7. 0 \in 0..MaxTakes
  BY ServicesAssumption DEF ServicesAssumption
<1>. QED BY <1>1, <1>3, <1>5, <1>6, <1>7 DEF TrackInv

LEMMA TrackStep ==
  ASSUME TrackInv, RecordInv, [Next]_vars
  PROVE  TrackInv'
<1>0. RecordOf(track, said) /\ IsRecord(track) /\ track.id \in Int /\ said \in Seq(Pushes)
  BY DEF RecordInv, RecordOf
<1>1. CASE Push
  <2>1. PICK p \in Pushes : track' = After(track, p)
    BY <1>1, Zenon DEF Push
  <2>2. takes' = takes /\ taken' = taken
    BY <1>1, Zenon DEF Push
  <2>3. track'.id = track.id
    BY <1>0, <2>1, AfterTold DEF Told
  <2>4. PlainTrack(track')
    BY <1>0, <2>1, PlainAfter DEF TrackInv
  <2>. QED BY <2>2, <2>3, <2>4 DEF TrackInv
<1>2. CASE Take
  <2>1. /\ takes < MaxTakes /\ takes' = takes + 1 /\ track' = NewTrack(track.id + 1)
        /\ taken' = [record |-> finish(track), said |-> said]
    BY <1>2, Zenon DEF Take
  <2>2. taken'.record = finish(track) /\ taken'.said = said
    BY <2>1
  <2>3. IsTrack(track)
    BY <1>0, RecordTyped DEF TrackInv
  <2>4. IsTrack(taken'.record) /\ taken'.record.id = track.id
    BY <1>0, <2>2, <2>3, TakenTyped
  <2>5. track'.id = track.id + 1 /\ PlainTrack(track')
    BY <1>0, <2>1, NewIs
  <2>6. takes' \in 0..MaxTakes
    <3>1. MaxTakes \in Nat
      BY ServicesAssumption DEF ServicesAssumption
    <3>. QED BY <2>1, <3>1 DEF TrackInv
  <2>7. track.id = takes + 1 /\ takes \in Nat
    BY DEF TrackInv
  <2>. QED BY <1>0, <2>1, <2>2, <2>4, <2>5, <2>6, <2>7 DEF TrackInv
<1>3. CASE UNCHANGED metadata
  BY <1>3, Zenon DEF TrackInv, metadata
<1>4. CASE UNCHANGED vars
  BY <1>3, <1>4, Zenon DEF vars
<1>. QED BY <1>1, <1>2, <1>3, <1>4, RecordElsewhere

(* The registry, of which every module and every id fits. *)
LEMMA ModulesFit ==
  ASSUME RegInv, NEW reg \in DOMAIN registry
  PROVE  TextFits(reg, Limit["reg_id"]) /\ reg # <<>> /\ IsModule(registry[reg])
<1>1. PICK c \in registered : reg = Seen(c.reg, "reg_id")
  BY Zenon DEF RegInv
<1>2. Kept(c, registry[reg]) /\ c \in RegCalls
  BY <1>1 DEF RegInv
<1>3. PICK schemas : schemas = registry[reg]
  OBVIOUS
<1>4. PICK read : read = read_schemas(c.array)
  BY Zenon
<1>5. /\ Seen(c.reg, "reg_id") \notin {Null, Refused, <<>>}
      /\ IsList(schemas, Limit["settings"]) /\ DOMAIN schemas = DOMAIN read.values
      /\ \A i, j \in DOMAIN read.values : i # j => read.values[i].id # read.values[j].id
      /\ \A i \in DOMAIN schemas :
           SchemaFor(schemas[i], read.values[i].id, read.values[i].setting.kind)
  BY <1>2, <1>3, <1>4, Zenon DEF Kept
<1>6. reg # <<>> /\ TextFits(reg, Limit["reg_id"])
  <2>1. c.reg \in Strings /\ "reg_id" \in StringLimits
    BY <1>2, PluginAssumption DEF PluginAssumption, IsRegCall, StringLimits
  <2>2. Seen(c.reg, "reg_id") \in {Null, Refused} \/ TextFits(Seen(c.reg, "reg_id"), Limit["reg_id"])
    BY <2>1, SeenFits
  <2>. QED BY <1>1, <1>5, <2>2
<1>7. \A i \in DOMAIN schemas : IsSchema(schemas[i]) /\ schemas[i].id = read.values[i].id
  BY <1>5, SchemaIs
<1>8. \A i, j \in DOMAIN schemas : schemas[i].id = schemas[j].id => i = j
  BY <1>5, <1>7
<1>9. IsModule(schemas)
  BY <1>5, <1>7, <1>8, Zenon DEF IsModule
<1>. QED BY <1>3, <1>6, <1>9

TypeInv == CountInv /\ TrackInv /\ IsAnswer(answer) /\ OverridesFit

LEMMA TypeInit == Init => TypeInv
<1>. SUFFICES ASSUME Init PROVE TypeInv
  OBVIOUS
<1>1. /\ requests \in Requests /\ vtables = {} /\ calls = 0 /\ writes = 0 /\ file = <<>>
      /\ answer = NoAnswer /\ overrides = <<>>
  BY Zenon DEF Init
<1>2. {MaxCalls, MaxWrites, Capacity} \subseteq Nat
  BY ServicesAssumption DEF ServicesAssumption
<1>3. CountInv
  BY <1>1, <1>2 DEF CountInv
<1>4. IsAnswer(answer)
  <2>1. answer.call = "none"
    BY <1>1 DEF NoAnswer
  <2>. QED BY <2>1, Zenon DEF IsAnswer
<1>5. OverridesFit
  <2>1. DOMAIN overrides = {}
    BY <1>1
  <2>. QED BY <2>1 DEF OverridesFit
<1>. QED BY <1>3, <1>4, <1>5, TrackInit DEF TypeInv

LEMMA TypeStep ==
  ASSUME TypeInv, RecordInv, IoInv, RegInv, [Next]_vars
  PROVE  TypeInv'
<1>1. CountInv'
  BY CountStep, Zenon DEF TypeInv
<1>2. TrackInv'
  BY TrackStep, Zenon DEF TypeInv
<1>3. IsAnswer(answer)'
  <2>1. track.id \in Nat
    BY DEF TypeInv, TrackInv
  <2>2. IsAnswer(answer')
    BY <2>1, AnswerStep, Zenon DEF TypeInv
  <2>. QED BY <2>2
<1>4. OverridesFit'
  BY RegStep, OverridesStep, Zenon DEF TypeInv
<1>. QED BY <1>1, <1>2, <1>3, <1>4, Zenon DEF TypeInv

(* The services, whatever a plugin sends and however the host, the consumer and the
   file go on meanwhile: every variable stays in its type.  Every text, tag, subsong
   and name in the record, in the last one taken and in the log is within the limit of
   its field and every list within its cap; the file, the read that runs and the
   buffers are bytes within theirs; a registered setting has an id of its own, a kind
   and choices that fit; and an override is of such a setting and of its kind. *)
THEOREM TypeCorrect == Spec => []TypeOK
<1>1. TypeInv /\ RecordInv /\ IoInv /\ RegInv => TypeOK
  <2>. SUFFICES ASSUME TypeInv, RecordInv, IoInv, RegInv PROVE TypeOK
    OBVIOUS
  <2>1. /\ requests \in Requests /\ vtables \subseteq DOMAIN ApiVersion
        /\ calls \in 0..MaxCalls /\ takes \in 0..MaxTakes /\ writes \in 0..MaxWrites
        /\ IsAnswer(answer) /\ track.id = takes + 1 /\ IsTrack(taken.record)
        /\ taken.record.id = takes /\ taken.said \in Seq(Pushes) /\ Len(file) <= Capacity
    BY Zenon DEF TypeInv, CountInv, TrackInv
  <2>2. IsTrack(track) /\ said \in Seq(Pushes)
    <3>1. RecordOf(track, said) /\ PlainTrack(track)
      BY Zenon DEF RecordInv, TypeInv, TrackInv
    <3>. QED BY <3>1, RecordTyped DEF RecordOf
  <2>3. /\ file \in Seq(Nat)
        /\ reading = NotReading \/ IsReading(reading)
        /\ buffers \in Seq({b \in Seq(Nat) : Len(b) \in 1..Limit["io_data"]})
    BY Zenon DEF IoInv, ReadingOf, IsReading, Buffers, Contents
  <2>4. \A reg \in DOMAIN registry :
          TextFits(reg, Limit["reg_id"]) /\ reg # <<>> /\ IsModule(registry[reg])
    BY ModulesFit
  <2>5. registered \subseteq RegCalls
    BY Zenon DEF RegInv
  <2>6. \A key \in DOMAIN overrides : IsOverride(key, overrides[key])
    BY Zenon DEF TypeInv, OverridesFit
  <2>. QED BY <2>1, <2>2, <2>3, <2>4, <2>5, <2>6, Zenon DEF TypeOK
<1>. QED BY <1>1, TypeInit, TypeStep, RecordInit, RecordStep, IoInit, IoStep, RegInit, RegStep,
         PTL DEF Spec
=============================================================================
