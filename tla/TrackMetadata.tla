----------------------------- MODULE TrackMetadata -----------------------------
(***************************************************************************)
(* The record of service/metadata.rs in full, and what each push does to   *)
(* it: every operator from create_url on is one critical section.  A       *)
(* number is "nan", "positive" or "zero", for any that is neither.         *)
(***************************************************************************)
EXTENDS ServiceLimits

Numbers == {"nan", "zero", "positive"}
is_finite(x) == x # "nan"

(* TrackMetadata::new. What the caps cut is a set in place of a flag each. *)
NewTrack(id) ==
  [id |-> id, url |-> [text |-> <<>>, raw |-> Null],
   tags |-> <<>>, subsongs |-> <<>>, samples |-> <<>>, instruments |-> <<>>,
   subsong_count |-> "Reported", invalid_utf8 |-> FALSE, empty_tag_key |-> FALSE,
   non_finite_number |-> FALSE, foreign_record_id |-> FALSE, truncation |-> {}]

TextOf(decoded) == [text |-> decoded.text, raw |-> decoded.raw]

(* TrackMetadata::accept, as far as the record is concerned. *)
accept(r, decoded, cut) ==
  [r EXCEPT !.invalid_utf8 = @ \/ decoded.invalid,
            !.truncation = IF decoded.truncated THEN @ \cup {cut} ELSE @]

note_id(r, id) == [r EXCEPT !.foreign_record_id = @ \/ id # r.id]

(* The record names the first url that is not empty. *)
create_url(r, value) ==
  LET url == Decoded[value, "url"]
      accepted == accept(r, url, "url")
  IN  IF r.url.text = <<>> THEN [accepted EXCEPT !.url = TextOf(url)] ELSE accepted

(* Fault: a list takes one entry more than its cap. *)
AddedPastCap(r, list, cut, entry, cap) ==
  IF Len(r[list]) > cap THEN [r EXCEPT !.truncation = @ \cup {cut}]
  ELSE [r EXCEPT ![list] = Append(@, entry)]

(* Fault: a full list gives up its last entry for the new one. *)
AddedOverLast(r, list, cut, entry, cap) ==
  IF Len(r[list]) >= cap
  THEN [r EXCEPT !.truncation = @ \cup {cut}, ![list] = Append(Front(@), entry)]
  ELSE [r EXCEPT ![list] = Append(@, entry)]

(* An entry for a list with a cap, or a report that one was cut. *)
Added(r, list, cut, entry, cap) ==
  IF Len(r[list]) >= cap THEN [r EXCEPT !.truncation = @ \cup {cut}]
  ELSE [r EXCEPT ![list] = Append(@, entry)]

(* push_tag: both things wrong with a tag are reported before it is dropped. *)
push_tag(r, key, value) ==
  LET keyless == key.text = <<>>
      unusable == value.kind = "Number" /\ ~is_finite(value.number)
      told == [r EXCEPT !.empty_tag_key = @ \/ keyless,
                        !.non_finite_number = @ \/ unusable]
  IN  IF keyless \/ unusable THEN told
      ELSE Added(told, "tags", "tags", [key |-> TextOf(key), value |-> value],
                 Limit["tags"])

set_tag(r, id, tag, data) ==
  LET key == Decoded[tag, "tag_key"]
      value == Decoded[data, "tag_value"]
  IN  push_tag(accept(accept(note_id(r, id), key, "tag_key"), value, "tag_value"),
               key, [kind |-> "Text", text |-> TextOf(value)])

set_tag_f64(r, id, tag, number) ==
  LET key == Decoded[tag, "tag_key"]
  IN  push_tag(accept(note_id(r, id), key, "tag_key"), key,
               [kind |-> "Number", number |-> number])

(* A length is kept when it is finite and above zero. *)
add_subsong(r, id, index, value, length) ==
  LET name == Decoded[value, "name"]
      told == [accept(note_id(r, id), name, "name") EXCEPT
                 !.non_finite_number = @ \/ ~is_finite(length)]
  IN  Added(told, "subsongs", "subsongs",
            [index |-> index, name |-> TextOf(name),
             length_seconds |-> IF length = "positive" THEN length ELSE "none"],
            Limit["subsongs"])

(* add_name, for add_sample and add_instrument: the list is named by its kind. *)
add_name(r, id, value, kind) ==
  LET text == Decoded[value, "name"]
  IN  Added(accept(note_id(r, id), text, "name"), kind, kind, TextOf(text),
            Limit["names"])

(* TrackMetadata::finish: a song without a subsong has one. *)
finish(r) ==
  IF r.subsongs # <<>> THEN r
  ELSE [r EXCEPT !.subsong_count = "Assumed",
                 !.subsongs = <<[index |-> 0, name |-> [text |-> <<>>, raw |-> Null],
                                 length_seconds |-> "none"]>>]
=============================================================================
