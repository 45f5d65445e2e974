---------------------------- MODULE SettingsArrays ----------------------------
(***************************************************************************)
(* The C side of service/settings.rs: the array a plugin registers, read   *)
(* into schemas, and the code each failure is reported with.               *)
(*                                                                         *)
(* An array is [null, items, count]: a null pointer, the entries its count *)
(* says it has, or a count over the limit, of which nothing is read.  An   *)
(* entry is a widget type with strings, a value (a string of its own kind  *)
(* for each) and choices.                                                  *)
(***************************************************************************)
EXTENDS ServiceLimits

Kinds == {"Float", "Int", "Bool", "IntChoice", "StrChoice"}
Booleans == {<<"false">>, <<"true">>}  \* the bytes 0 and 1

(* Setting::type_name: the accessor that reads a kind. *)
Accessor(kind) ==
  CASE kind = "Float" -> "float" [] kind \in {"Int", "IntChoice"} -> "int"
    [] kind = "Bool" -> "bool"   [] kind = "StrChoice" -> "string"

(* SettingsError::to_abi *)
to_abi(error) ==
  CASE error = "NotFound" -> "NotFound" [] error = "UnknownId" -> "UnknownId"
    [] error \in {"WrongType", "InteriorNul"} -> "WrongType"
    [] error \in {"DuplicateRegId", "DuplicateId"} -> "DuplicatedId"

(* Setting.  The declared range of a Float or an Int bounds nothing. *)
SettingOf(kind, value, choices) == [kind |-> kind, value |-> value, choices |-> choices]

(* Reading one thing ends in a value, in nothing to keep, or in an error that
   ends the registration. *)
Value(x) == [is |-> "value", value |-> x]
Skipped  == [is |-> "skipped"]
Warned   == [is |-> "warned"]  \* skipped, with a line in the log
Error(code) == [is |-> "error", code |-> code]

(* checked_array_count *)
TooMany(array, limit) == array.count > limit

(* What the steps of a loop over an array come to: the first error, or the
   values in order.  `upto` is how far the loop got. *)
Collected(outcomes) ==
  LET errors == {i \in DOMAIN outcomes : outcomes[i].is = "error"}
      first == CHOOSE i \in errors : \A j \in errors : i <= j
      kept == Filtered(outcomes, LAMBDA o : o.is = "value")
  IN  IF errors = {}
      THEN [ok |-> TRUE, values |-> [k \in DOMAIN kept |-> kept[k].value],
            upto |-> Len(outcomes)]
      ELSE [ok |-> FALSE, code |-> outcomes[first].code, upto |-> first]

(* An array, given what each of its entries comes to. *)
ReadArray(array, limit, outcomes) ==
  IF TooMany(array, limit) THEN [ok |-> FALSE, code |-> "InvalidCount", upto |-> 0]
  ELSE IF array.null THEN [ok |-> TRUE, values |-> <<>>, upto |-> 0]
  ELSE Collected(outcomes)

(* An entry of read_int_choices: one without a name is passed over. *)
ReadIntChoice(entry) ==
  LET name == Read[entry.name, "label"]
  IN  IF name = Refused THEN Error("NotFound")
      ELSE IF name = Null THEN Skipped
      ELSE Value([name |-> name, value |-> entry.value])

(* An entry of read_str_choices: one without a name or a value is passed over,
   even when its other string is over the limit. *)
ReadStrChoice(entry) ==
  LET name == Read[entry.name, "label"]
      value == Read[entry.value, "setting_value"]
  IN  IF Null \in {name, value} THEN Skipped
      ELSE IF Refused \in {name, value} THEN Error("NotFound")
      ELSE Value([name |-> name, value |-> value])

IntChoices(items) == [i \in DOMAIN items |-> ReadIntChoice(items[i])]
StrChoices(items) == [i \in DOMAIN items |-> ReadStrChoice(items[i])]

OrEmpty(text) == IF text = Null THEN <<>> ELSE text

(* Extension::new: leading dots go, case is folded. *)
Normalized(text) ==
  LET dots == CHOOSE n \in 0..Len(text) :
                /\ \A i \in 1..n : text[i] = "dot"
                /\ n < Len(text) => text[n + 1] # "dot"
  IN  [i \in 1..(Len(text) - dots) |->
         IF text[i + dots] = "upper" THEN "ascii" ELSE text[i + dots]]

(* A setting with its choices. *)
Chosen(entry, value, choices) ==
  IF ~choices.ok THEN Error(choices.code)
  ELSE Value(SettingOf(entry.type, value, choices.values))

(* The value and the choices of an entry whose strings are good. *)
ReadSetting(entry) ==
  CASE entry.type = "Bool" /\ entry.value \notin Booleans -> Warned
    [] entry.type = "IntChoice" ->
         Chosen(entry, entry.value,
                ReadArray(entry.choices, Limit["choices"], IntChoices(entry.choices.items)))
    [] entry.type = "StrChoice" ->
         IF Read[entry.value, "setting_value"] = Refused THEN Error("NotFound")
         ELSE Chosen(entry, OrEmpty(Read[entry.value, "setting_value"]),
                     ReadArray(entry.choices, Limit["choices"], StrChoices(entry.choices.items)))
    [] OTHER -> Value(SettingOf(entry.type, entry.value, <<>>))

(* An entry of which the strings and the rest have been read.  Of an unknown
   type only the id is. *)
Entered(entry, id, name, desc, setting) ==
  IF entry.type \notin Kinds
  THEN IF id = Refused THEN Error("NotFound") ELSE Warned
  ELSE IF Refused \in {id, name, desc} THEN Error("NotFound")
  ELSE IF OrEmpty(id) = <<>> THEN Warned
  ELSE IF setting.is # "value" THEN setting
  ELSE Value([id |-> id, name |-> OrEmpty(name), desc |-> OrEmpty(desc),
              setting |-> setting.value])

(* Fault: an id is as long as a label may be. *)
ReadEntryByLabel(entry) ==
  Entered(entry, Read[entry.id, "label"], Read[entry.name, "label"],
          Read[entry.desc, "description"], ReadSetting(entry))

(* One entry of read_schemas. *)
ReadEntry(entry) ==
  Entered(entry, Read[entry.id, "setting_id"], Read[entry.name, "label"],
          Read[entry.desc, "description"], ReadSetting(entry))

read_schemas(array) ==
  ReadArray(array, Limit["settings"], [i \in DOMAIN array.items |-> ReadEntry(array.items[i])])

(* Whether read_schemas logs: of each entry it warns of, as far as it got. *)
Warns(array, upto) == \E i \in 1..upto : ReadEntry(array.items[i]).is = "warned"
=============================================================================
