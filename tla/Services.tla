------------------------------- MODULE Services -------------------------------
(***************************************************************************)
(* The services a ServiceHost lends to a plugin, called through their C    *)
(* vtables: io.rs, log.rs with log_shim.c, metadata.rs, and the C side of  *)
(* settings.rs over a registry whose own interleavings Settings models.    *)
(*                                                                         *)
(* A plugin calls from one thread, one call at a time.  Meanwhile the file *)
(* it reads is written, the consumer takes the metadata record and the     *)
(* host sets values.  Code of the host that a call reaches may panic;      *)
(* `guard` turns that into the call's fallback.                            *)
(***************************************************************************)
EXTENDS TrackMetadata, SettingsArrays, FiniteSets

CONSTANTS
  ApiVersion,     \* the version of each service's vtable
  Requests,       \* what a plugin may ask for: sets of [service, version]
  Pushes,         \* what it pushes as metadata: a call, its strings and numbers, and
                  \* whether it is under the id of the record there is
  IoUrls,         \* urls it reads
  FileUrl,        \* the one the file is found under
  LogCalls,       \* what it logs: [level, file, line, fmt, formatted]
  RegCalls,       \* registrations it makes: [reg, array]
  Lookups,        \* settings it looks up: [accessor, reg, ext, id]
  Extensions,     \* extensions the host sets values for
  HostValues,     \* values the host sets: [accessor, value]
  Capacity,       \* bound: bytes of the file
  MaxCalls,       \* bound: calls of the plugin
  MaxTakes,       \* bound: records the consumer takes
  MaxWrites       \* bound: writes to the file

VARIABLES
  requests,    \* what this plugin asks for
  vtables,     \* services it was given the vtable of
  calls,       \* calls it made (history)
  answer,      \* what the last of them came to (history)
  track,       \* the metadata record
  said,        \* pushes since the last take (history)
  taken,       \* the last record taken and what it was made of (history)
  takes,       \* records taken (history)
  file,        \* the file's bytes
  writes,      \* writes to it (history)
  reading,     \* a read_to_memory that is running, or NotReading
  buffers,     \* buffers handed to the plugin and not freed
  registry,    \* registered settings, by registration id
  overrides,   \* values set for an extension
  registered   \* registrations that succeeded (history)

ServicesAssumption ==
  /\ DOMAIN ApiVersion = {"io", "log", "metadata", "settings"}
  /\ {Capacity, MaxCalls, MaxTakes, MaxWrites} \subseteq Nat
ASSUME ServicesAssumption

(* What a plugin sends is C strings and arrays; what it has formatted is a string,
   and so is what the shim's buffer leaves of it. *)
IsPush(p) ==
  /\ p.call \in {"create_url", "set_tag", "set_tag_f64", "add_subsong", "samples", "instruments"}
  /\ IF p.call \in {"set_tag", "set_tag_f64"} THEN p.tag \in Strings ELSE p.text \in Strings
  /\ p.call = "set_tag" => p.data \in Strings
  /\ p.call = "set_tag_f64" => p.number \in Numbers
  /\ p.call = "add_subsong" => p.index \in Nat /\ p.length \in Numbers
IsLogCall(c) ==
  /\ c.level \in Int /\ c.line \in Int
  /\ c.file \in Strings /\ c.fmt \in {Null} \cup Seq(Bytes) /\ c.formatted \in Seq(Bytes)
  /\ \A n \in 0..Len(c.formatted) : SubSeq(c.formatted, 1, n) \in Strings
IsArray(array) ==
  array.items \in Seq(ToSet(array.items)) /\ array.count \in Nat /\ Len(array.items) <= array.count
IsEntry(e) ==
  /\ {e.id, e.name, e.desc} \subseteq Strings
  /\ IsArray(e.choices) /\ \A choice \in ToSet(e.choices.items) : choice.name \in Strings
IsRegCall(c) ==
  c.reg \in Strings /\ IsArray(c.array) /\ \A e \in ToSet(c.array.items) : IsEntry(e)

PluginAssumption ==
  /\ \A asked \in Requests : \A r \in asked : r.service \in DOMAIN ApiVersion
  /\ \A p \in Pushes : IsPush(p)
  /\ \A c \in LogCalls : IsLogCall(c)
  /\ \A c \in RegCalls : IsRegCall(c)
ASSUME PluginAssumption

plugin   == <<requests, vtables>>
metadata == <<track, said, taken, takes>>
io       == <<file, writes, reading, buffers>>
settings == <<registry, overrides, registered>>
vars     == <<plugin, calls, answer, metadata, io, settings>>

NotReading == [pc |-> "none"]
NoAnswer == [call |-> "none"]

(* A call of the plugin starts, to a service it was given. *)
Calls(service) ==
  /\ reading = NotReading
  /\ service \in vtables
  /\ calls < MaxCalls
  /\ calls' = calls + 1

-----------------------------------------------------------------------------
(* service/mod.rs: the getters of the locator, null for another version. *)
GetService ==
  /\ \E r \in requests :
       /\ r.service \notin vtables
       /\ vtables' = IF r.version = ApiVersion[r.service]
                     THEN vtables \cup {r.service} ELSE vtables
       /\ answer' = [call |-> "get_service", null |-> r.version # ApiVersion[r.service]]
  /\ reading = NotReading
  /\ UNCHANGED <<requests, calls, metadata, io, settings>>

-----------------------------------------------------------------------------
(* metadata.rs: every push, and take. *)

After(r, p) ==
  LET id == IF p.own THEN r.id ELSE r.id - 1
  IN  CASE p.call = "create_url" -> create_url(r, p.text)
        [] p.call = "set_tag" -> set_tag(r, id, p.tag, p.data)
        [] p.call = "set_tag_f64" -> set_tag_f64(r, id, p.tag, p.number)
        [] p.call = "add_subsong" -> add_subsong(r, id, p.index, p.text, p.length)
        [] OTHER -> add_name(r, id, p.text, p.call)

Push ==
  /\ Calls("metadata")
  /\ \E p \in Pushes :
       /\ track' = After(track, p)
       /\ said' = Append(said, p)
       /\ answer' = [call |-> "push", id |-> track.id]
  /\ UNCHANGED <<plugin, taken, takes, io, settings>>

(* MetadataHandle::take, on the consumer's thread.  (Bound: while a plugin has
   the service; without it the record stays as it is.) *)
Take ==
  /\ "metadata" \in vtables
  /\ takes < MaxTakes
  /\ takes' = takes + 1
  /\ taken' = [record |-> finish(track), said |-> said]
  /\ track' = NewTrack(track.id + 1)
  /\ said' = <<>>
  /\ UNCHANGED <<plugin, calls, answer, io, settings>>

-----------------------------------------------------------------------------
(* io.rs: a read that ends hands over a buffer, or nothing. *)

Empty == [call |-> "read_url_to_memory", data |-> <<>>, ended |-> <<>>, shrunk |-> FALSE]

exists ==
  /\ Calls("io")
  /\ \E url \in IoUrls :
       answer' = [call |-> "exists", is |-> Read[url, "io_url"] = FileUrl]
  /\ UNCHANGED <<plugin, metadata, io, settings>>

(* What the backend read becomes a buffer unless it is empty or too large, or
   there is no memory for it. *)
HandOver(bytes, ended, shrunk) ==
  /\ reading' = NotReading
  /\ \/ /\ answer' = Empty
        /\ UNCHANGED buffers
     \/ /\ Len(bytes) \in 1..Limit["io_data"]
        /\ answer' = [Empty EXCEPT !.data = bytes, !.ended = ended, !.shrunk = shrunk]
        /\ buffers' = Append(buffers, bytes)

(* A host's own Io answers with bytes of any size, with None, or panics. *)
ReadFromHost ==
  /\ Calls("io")
  /\ \E n \in 0..(Limit["io_data"] + 1) :
       LET bytes == [i \in 1..n |-> 0] IN HandOver(bytes, bytes, FALSE)
  /\ UNCHANGED <<plugin, metadata, file, writes, settings>>

(* StdFsIo::read_to_memory opens the file, takes its length and allocates. *)
BeginRead ==
  /\ Calls("io")
  /\ \E url \in IoUrls :
       IF Read[url, "io_url"] = FileUrl /\ Len(file) <= Limit["io_data"]
       THEN /\ reading' = [pc |-> "read", count |-> Len(file), bytes |-> <<>>,
                           shrunk |-> FALSE]
            /\ UNCHANGED <<answer, buffers>>
       ELSE HandOver(<<>>, <<>>, FALSE)
  /\ UNCHANGED <<plugin, metadata, file, writes, settings>>

(* read_exact goes on, by as many bytes as one read(2) gives; at the end of the
   file it gives none, and the call fails. *)
ReadSome ==
  /\ reading.pc = "read"
  /\ LET at == Len(reading.bytes)
     IN  /\ at < reading.count
         /\ \/ \E n \in (at + 1)..reading.count :
                 /\ n <= Len(file)
                 /\ reading' = [reading EXCEPT !.bytes = @ \o SubSeq(file, at + 1, n)]
                 /\ UNCHANGED <<answer, buffers>>
            \/ at >= Len(file) /\ HandOver(<<>>, <<>>, FALSE)
  /\ UNCHANGED <<plugin, calls, metadata, file, writes, settings>>

(* Fault: nothing is asked of the file behind the bytes it had. *)
AnyLength == TRUE

(* One byte more cannot be read. *)
AtItsEnd == Len(file) <= reading.count

ReadTrailing ==
  /\ reading.pc = "read"
  /\ Len(reading.bytes) = reading.count
  /\ HandOver(IF AtItsEnd THEN reading.bytes ELSE <<>>, file, reading.shrunk)
  /\ UNCHANGED <<plugin, calls, metadata, file, writes, settings>>

free_url_to_memory ==
  /\ Calls("io")
  /\ \E i \in DOMAIN buffers : buffers' = RemoveAt(buffers, i)
  /\ answer' = NoAnswer
  /\ UNCHANGED <<plugin, metadata, file, writes, reading, settings>>

(* Somebody appends to the file or cuts it short.  (Bound: while a plugin could
   read it.) *)
WriteFile ==
  /\ "io" \in vtables
  /\ writes < MaxWrites
  /\ writes' = writes + 1
  /\ \/ Len(file) < Capacity /\ file' = Append(file, writes')
     \/ file # <<>> /\ file' = Front(file)
  /\ reading' = IF reading = NotReading THEN NotReading
                ELSE [reading EXCEPT !.shrunk = @ \/ Len(file') < Len(file)]
  /\ UNCHANGED <<plugin, calls, answer, metadata, buffers, settings>>

-----------------------------------------------------------------------------
(* log.rs and log_shim.c *)

(* LogLevel::from_raw *)
from_raw(raw) ==
  LET levels == <<"Trace", "Debug", "Info", "Warn", "Error", "Fatal">>
  IN  IF raw + 1 \in DOMAIN levels THEN levels[raw + 1] ELSE "Info"

NoLine == [level |-> "none"]

(* retrovert_host_log_write *)
LogWrite(level, file_name, line, text) ==
  LET file_text == Read[file_name, "log_file"]
      message == Read[text, "log_message"]
  IN  IF file_text = Refused \/ message \in {Null, Refused} THEN NoLine
      ELSE [level |-> from_raw(level), file |-> file_text,
            line |-> IF line < 0 THEN 0 ELSE line, message |-> message]

(* Fault: the buffer of the shim is a byte larger than the message limit allows. *)
LargerBuffer == Limit["log_message"] + 2

(* The shim's buf, which vsnprintf fills with what fits and a terminator. *)
ShimBuffer == Limit["log_message"] + 1

(* retrovert_host_log_shim *)
LogShim(c) ==
  IF c.fmt = Null \/ Len(c.fmt) > Limit["log_format"] THEN NoLine
  ELSE LET fit == IF Len(c.formatted) < ShimBuffer THEN Len(c.formatted)
                  ELSE ShimBuffer - 1
       IN  LogWrite(c.level, c.file, c.line, SubSeq(c.formatted, 1, fit))

Log ==
  /\ Calls("log")
  /\ \E c \in LogCalls : answer' = [call |-> "log", with |-> c, line |-> LogShim(c)]
  /\ UNCHANGED <<plugin, metadata, io, settings>>

-----------------------------------------------------------------------------
(* The C side of settings.rs. *)

Put(map, key, value) ==
  [k \in DOMAIN map \cup {key} |-> IF k = key THEN value ELSE map[k]]

SchemaOf(schemas, id) == CHOOSE s \in ToSet(schemas) : s.id = id
HasId(schemas, id) == \E s \in ToSet(schemas) : s.id = id

(* reg, as far as its answer: the id, the array, and SettingsHandle::register. *)
RegResult(reg, schemas) ==
  IF reg \in {Null, Refused, <<>>} THEN "NotFound"
  ELSE IF ~schemas.ok THEN schemas.code
  ELSE IF reg \in DOMAIN registry THEN to_abi("DuplicateRegId")
  ELSE IF \E i, j \in DOMAIN schemas.values :
            i # j /\ schemas.values[i].id = schemas.values[j].id THEN to_abi("DuplicateId")
  ELSE "Ok"

(* What it changes.  The store has nothing for a new id; its load may panic, and
   so may the log: then nothing is registered. *)
Registers(c, reg, schemas, result, warns) ==
  \/ /\ answer' = [call |-> "reg", result |-> result]
     /\ registry' = IF result # "Ok" THEN registry ELSE Put(registry, reg, schemas.values)
     /\ registered' = IF result # "Ok" THEN registered ELSE registered \cup {c}
  \/ /\ warns \/ result = "Ok"
     /\ answer' = [call |-> "reg", result |-> "NotFound"]
     /\ UNCHANGED <<registry, registered>>

Reg ==
  /\ Calls("settings")
  /\ \E c \in RegCalls :
       LET reg == Read[c.reg, "reg_id"]
           schemas == read_schemas(c.array)
       IN  Registers(c, reg, schemas, RegResult(reg, schemas),
                     /\ reg \notin {Null, Refused, <<>>}
                     /\ Warns(c.array, schemas.upto))
  /\ UNCHANGED <<plugin, metadata, io, overrides>>

(* Registry::value *)
RegistryValue(reg, ext, id) ==
  IF reg \notin DOMAIN registry THEN [ok |-> FALSE, error |-> "NotFound"]
  ELSE IF ~HasId(registry[reg], id) THEN [ok |-> FALSE, error |-> "UnknownId"]
  ELSE LET setting == SchemaOf(registry[reg], id).setting
       IN  [ok |-> TRUE, accessor |-> Accessor(setting.kind),
            value |-> IF ext # <<>> /\ <<reg, ext, id>> \in DOMAIN overrides
                      THEN overrides[<<reg, ext, id>>] ELSE setting.value]

(* lookup *)
lookup(raw_reg, raw_ext, raw_id) ==
  LET reg == Read[raw_reg, "reg_id"]
      ext == Read[raw_ext, "extension"]
      id == Read[raw_id, "setting_id"]
  IN  IF Refused \in {reg, ext, id} \/ Null \in {reg, id}
      THEN [ok |-> FALSE, error |-> "NotFound"]
      ELSE RegistryValue(reg, Normalized(OrEmpty(ext)), id)

(* get_string, get_int, get_float and get_bool *)
Got(accessor, reg, ext, id) ==
  LET found == lookup(reg, ext, id)
  IN  CASE ~found.ok -> [result |-> to_abi(found.error)]
        [] found.ok /\ found.accessor # accessor -> [result |-> "WrongType"]
        [] OTHER -> [result |-> "Ok", value |-> found.value]

Accessors == {"float", "int", "bool", "string"}

Get ==
  /\ Calls("settings")
  /\ \E l \in Lookups :
       answer' = [call |-> "get", got |-> Got(l.accessor, l.reg, l.ext, l.id)]
  /\ UNCHANGED <<plugin, metadata, io, settings>>

(* SettingsHandle::set_value, on a thread of the host; a value of another kind
   than the setting's is refused. *)
SetValue ==
  /\ \E reg \in DOMAIN registry, ext \in Extensions, v \in HostValues :
       \E i \in DOMAIN registry[reg] :
         /\ Accessor(registry[reg][i].setting.kind) = v.accessor
         /\ IF Normalized(ext) = <<>>
            THEN /\ registry' = [registry EXCEPT ![reg][i].setting.value = v.value]
                 /\ UNCHANGED overrides
            ELSE /\ overrides' =
                      Put(overrides, <<reg, Normalized(ext), registry[reg][i].id>>, v.value)
                 /\ UNCHANGED registry
  /\ UNCHANGED <<plugin, calls, answer, metadata, io, registered>>

-----------------------------------------------------------------------------
(* ServiceHost::new *)
Init ==
  /\ requests \in Requests
  /\ vtables = {}
  /\ calls = 0
  /\ answer = NoAnswer
  /\ track = NewTrack(1) /\ said = <<>>
  /\ taken = [record |-> finish(NewTrack(0)), said |-> <<>>] /\ takes = 0
  /\ file = <<>> /\ writes = 0
  /\ reading = NotReading
  /\ buffers = <<>>
  /\ registry = <<>> /\ overrides = <<>> /\ registered = {}

Io == exists \/ ReadFromHost \/ BeginRead \/ ReadSome \/ ReadTrailing
      \/ free_url_to_memory

Next == GetService \/ Push \/ Take \/ Io \/ WriteFile \/ Log \/ Reg \/ Get \/ SetValue

Spec == Init /\ [][Next]_vars

-----------------------------------------------------------------------------
(* What every variable is. *)

(* Text of the host within a limit; in metadata, with the plugin's bytes when they
   were not UTF-8. *)
TextFits(t, limit) == t \in Seq(Bytes \cup {Replacement}) /\ TextLen(t) <= limit
IsMetadataText(t, limit) ==
  /\ TextFits(t.text, limit)
  /\ t.raw = Null \/ (t.raw \in Seq(Bytes) /\ Len(t.raw) <= limit)

IsList(list, cap) == list \in Seq(ToSet(list)) /\ Len(list) <= cap

IsTagEntry(e) ==
  /\ IsMetadataText(e.key, Limit["tag_key"]) /\ e.key.text # <<>>
  /\ \/ e.value.kind = "Text" /\ IsMetadataText(e.value.text, Limit["tag_value"])
     \/ e.value.kind = "Number" /\ e.value.number \in Numbers \ {"nan"}
IsSubsongEntry(e) ==
  /\ e.index \in Nat /\ IsMetadataText(e.name, Limit["name"])
  /\ e.length_seconds \in {"positive", "none"}

Flags == {"invalid_utf8", "empty_tag_key", "non_finite_number", "foreign_record_id"}

IsTrack(r) ==
  /\ IsMetadataText(r.url, Limit["url"])
  /\ IsList(r.tags, Limit["tags"]) /\ \A e \in ToSet(r.tags) : IsTagEntry(e)
  /\ IsList(r.subsongs, Limit["subsongs"]) /\ \A e \in ToSet(r.subsongs) : IsSubsongEntry(e)
  /\ \A list \in {"samples", "instruments"} :
       /\ IsList(r[list], Limit["names"])
       /\ \A e \in ToSet(r[list]) : IsMetadataText(e, Limit["name"])
  /\ r.subsong_count \in {"Reported", "Assumed"}
  /\ \A flag \in Flags : r[flag] \in BOOLEAN
  /\ r.truncation \subseteq StringLimits \cup CountLimits \cup {"samples", "instruments"}

IsReading(r) ==
  /\ r \in [pc : {"read"}, count : Nat, bytes : Seq(Nat), shrunk : BOOLEAN]
  /\ Len(r.bytes) <= r.count /\ r.count <= Limit["io_data"]

IsLine(l) ==
  /\ l.level \in {"Trace", "Debug", "Info", "Warn", "Error", "Fatal"} /\ l.line \in Nat
  /\ l.file = Null \/ TextFits(l.file, Limit["log_file"])
  /\ TextFits(l.message, Limit["log_message"])

ReturnCodes == {"Ok", "NotFound", "UnknownId", "WrongType", "DuplicatedId", "InvalidCount"}

IsAnswer(a) ==
  \/ a.call = "none"
  \/ a.call = "get_service" /\ a.null \in BOOLEAN
  \/ a.call = "push" /\ a.id \in Nat
  \/ a.call = "exists" /\ a.is \in BOOLEAN
  \/ /\ a.call = "read_url_to_memory"
     /\ a.data \in Seq(Nat) /\ Len(a.data) <= Limit["io_data"]
     /\ a.ended \in Seq(Nat) /\ a.shrunk \in BOOLEAN
  \/ a.call = "log" /\ a.with \in LogCalls /\ (a.line = NoLine \/ IsLine(a.line))
  \/ a.call = "reg" /\ a.result \in ReturnCodes
  \/ a.call = "get" /\ a.got.result \in ReturnCodes

(* A setting's own value is whatever the plugin or the host gave it. *)
IsSchema(s) ==
  /\ TextFits(s.id, Limit["setting_id"]) /\ s.id # <<>>
  /\ TextFits(s.name, Limit["label"]) /\ TextFits(s.desc, Limit["description"])
  /\ s.setting.kind \in Kinds
  /\ IsList(s.setting.choices, Limit["choices"])
  /\ \A choice \in ToSet(s.setting.choices) : TextFits(choice.name, Limit["label"])

IsModule(schemas) ==
  /\ IsList(schemas, Limit["settings"])
  /\ \A i \in DOMAIN schemas :
       /\ IsSchema(schemas[i])
       /\ \A j \in DOMAIN schemas : schemas[i].id = schemas[j].id => i = j

(* An override is of a setting there is, for an extension, and one of the values
   the host sets of the setting's kind. *)
IsOverride(key, value) ==
  \E reg \in DOMAIN registry, ext \in Extensions, v \in HostValues :
    \E i \in DOMAIN registry[reg] :
      /\ Normalized(ext) # <<>> /\ key = <<reg, Normalized(ext), registry[reg][i].id>>
      /\ v.accessor = Accessor(registry[reg][i].setting.kind) /\ v.value = value

(* Every variable stays in its type, every list and text of a plugin within the cap
   of the service that took it; the last record taken is the one before the record
   there is, and an override is of a setting that is registered. *)
TypeOK ==
  /\ requests \in Requests /\ vtables \subseteq DOMAIN ApiVersion
  /\ calls \in 0..MaxCalls /\ takes \in 0..MaxTakes /\ writes \in 0..MaxWrites
  /\ IsAnswer(answer)
  /\ IsTrack(track) /\ track.id = takes + 1 /\ said \in Seq(Pushes)
  /\ IsTrack(taken.record) /\ taken.record.id = takes /\ taken.said \in Seq(Pushes)
  /\ file \in Seq(Nat) /\ Len(file) <= Capacity
  /\ reading = NotReading \/ IsReading(reading)
  /\ buffers \in Seq({b \in Seq(Nat) : Len(b) \in 1..Limit["io_data"]})
  /\ \A reg \in DOMAIN registry :
       TextFits(reg, Limit["reg_id"]) /\ reg # <<>> /\ IsModule(registry[reg])
  /\ \A key \in DOMAIN overrides : IsOverride(key, overrides[key])
  /\ registered \subseteq RegCalls

-----------------------------------------------------------------------------
(* What a record has to hold, from what was said and nothing else. *)

StringsOf(p) ==
  CASE p.call = "set_tag" ->
         {<<Decoded[p.tag, "tag_key"], "tag_key">>,
          <<Decoded[p.data, "tag_value"], "tag_value">>}
    [] p.call = "set_tag_f64" -> {<<Decoded[p.tag, "tag_key"], "tag_key">>}
    [] p.call = "create_url" -> {<<Decoded[p.text, "url"], "url">>}
    [] OTHER -> {<<Decoded[p.text, "name"], "name">>}

IsTag(p) == p.call \in {"set_tag", "set_tag_f64"}
Keyless(p) == IsTag(p) /\ Decoded[p.tag, "tag_key"].text = <<>>
NotFinite(p) ==
  \/ p.call = "set_tag_f64" /\ p.number = "nan"
  \/ p.call = "add_subsong" /\ p.length = "nan"
KeptTag(p) == IsTag(p) /\ ~Keyless(p) /\ ~NotFinite(p)
IsSubsong(p) == p.call = "add_subsong"

(* The entry of a push, and the url of one that names it. *)
EntryOf(p) ==
  CASE p.call = "set_tag" ->
         [key |-> TextOf(Decoded[p.tag, "tag_key"]),
          value |-> [kind |-> "Text", text |-> TextOf(Decoded[p.data, "tag_value"])]]
    [] p.call = "set_tag_f64" ->
         [key |-> TextOf(Decoded[p.tag, "tag_key"]),
          value |-> [kind |-> "Number", number |-> p.number]]
    [] p.call = "add_subsong" ->
         [index |-> p.index, name |-> TextOf(Decoded[p.text, "name"]),
          length_seconds |-> IF p.length = "positive" THEN p.length ELSE "none"]
    [] p.call = "create_url" -> TextOf(Decoded[p.text, "url"])
    [] OTHER -> TextOf(Decoded[p.text, "name"])

NoText == [text |-> <<>>, raw |-> Null]
NamesUrl(p) == p.call = "create_url" /\ EntryOf(p).text # <<>>

(* The list holds the entries of the pushes that count: the first of them, in
   order, as many as its cap allows; the cap is reported when there were more. *)
Holds(r, list, cut, calls_of_it, cap) ==
  /\ Len(r[list]) = IF Len(calls_of_it) < cap THEN Len(calls_of_it) ELSE cap
  /\ \A i \in DOMAIN r[list] : r[list][i] = EntryOf(calls_of_it[i])
  /\ cut \in r.truncation <=> Len(calls_of_it) > cap

Names(pushes, kind) == Filtered(pushes, LAMBDA p : p.call = kind)

Digest(r, pushes) ==
  LET all == ToSet(pushes)
      tags == Filtered(pushes, KeptTag)
      urls == Filtered(pushes, NamesUrl)
  IN  /\ Holds(r, "tags", "tags", tags, Limit["tags"])
      /\ Holds(r, "samples", "samples", Names(pushes, "samples"), Limit["names"])
      /\ Holds(r, "instruments", "instruments", Names(pushes, "instruments"), Limit["names"])
      /\ IF urls = <<>> THEN r.url.text = <<>> ELSE r.url = EntryOf(urls[1])
      /\ r.invalid_utf8 <=> \E p \in all : \E s \in StringsOf(p) : s[1].invalid
      /\ \A kind \in {"url", "tag_key", "tag_value", "name"} :
           kind \in r.truncation <=>
             \E p \in all : \E s \in StringsOf(p) : s[1].truncated /\ s[2] = kind
      /\ r.empty_tag_key <=> \E p \in all : Keyless(p)
      /\ r.non_finite_number <=> \E p \in all : NotFinite(p)
      /\ r.foreign_record_id <=> \E p \in all : p.call # "create_url" /\ ~p.own

(* Whatever a plugin pushes, under whatever id, and whenever the consumer
   takes: the record and every record taken hold the pushes since the take
   before.  Each list has the entries of the first of them, as they were said, in
   order and up to its cap; the url is the first that is not empty; each flag
   says what was sent even of what was dropped; and a song without a subsong is
   given one. *)
RecordTells ==
  /\ Digest(track, said)
  /\ Holds(track, "subsongs", "subsongs", Filtered(said, IsSubsong), Limit["subsongs"])
  /\ Digest(taken.record, taken.said)
  /\ LET subsongs == Filtered(taken.said, IsSubsong)
     IN  IF subsongs = <<>>
         THEN /\ taken.record.subsong_count = "Assumed"
              /\ taken.record.subsongs =
                   <<[index |-> 0, name |-> NoText, length_seconds |-> "none"]>>
         ELSE /\ taken.record.subsong_count = "Reported"
              /\ Holds(taken.record, "subsongs", "subsongs", subsongs, Limit["subsongs"])

(* However a file grows while it is read, a plugin is never given part of it as
   the whole: what it gets is all there is when the last read(2) looks.  (A file
   that is also cut short can be torn: read_exact is several reads.) *)
WholeFileOrNothing ==
  answer.call = "read_url_to_memory" /\ answer.data # <<>> /\ ~answer.shrunk =>
    answer.data = answer.ended

(* A line whose format is within the shim's limit and whose file name is within
   its own reaches the log, however long it becomes: cut by the shim's buffer,
   never refused on the other side for its length. *)
FormattedIsLogged ==
  answer.call = "log" =>
    LET c == answer.with
    IN  c.fmt # Null /\ Len(c.fmt) <= Limit["log_format"]
        /\ Read[c.file, "log_file"] # Refused
        => /\ answer.line # NoLine
           /\ IsUtf8(c.formatted) /\ Len(c.formatted) <= Limit["log_message"]
                => answer.line.message = c.formatted

(* A registration is all or nothing: after one that succeeded, every entry of
   its array that is not to be skipped is found under the strings it was
   registered with, for any extension that can be read, by the accessor of its
   type and no other, whatever the host sets since; and nothing is registered
   under the strings of one that failed. *)
RegisteredIsFound ==
  /\ DOMAIN registry = {Read[c.reg, "reg_id"] : c \in registered}
  /\ \A c \in registered :
       ~c.array.null =>
         \A i \in DOMAIN c.array.items :
           LET entry == c.array.items[i]
           IN  ReadEntry(entry).is = "value" =>
                 \A ext \in Strings, a \in Accessors :
                   (Got(a, c.reg, ext, entry.id).result = "Ok")
                     <=> Read[ext, "extension"] # Refused /\ a = Accessor(entry.type)
=============================================================================
