------------------------------ MODULE Metadata ------------------------------
(***************************************************************************)
(* The one record of service/metadata.rs that every plugin pushes into, as *)
(* operators on it; each is one critical section of MetadataHandle.        *)
(*                                                                         *)
(* A push is known by the song it is about, so a record is its id, the     *)
(* song its url names, the songs its pushes are about and whether a push   *)
(* named another record.  What a tag or a name says, in which of the four  *)
(* lists it lands, and the caps on them are left out.                      *)
(***************************************************************************)
EXTENDS Naturals

NoSong == 0

(* TrackMetadata::new *)
NewRecord(id) == [id |-> id, url |-> NoSong, songs |-> {}, foreign |-> FALSE]

(* MetadataHandle::new *)
FirstRecord == NewRecord(1)

(* Fault: what take leaves behind is a default record, without an id. *)
Defaulted(r) == NewRecord(NoSong)

(* take's other half, and all that discard does: an empty record, a fresh id. *)
Replaced(r) == NewRecord(r.id + 1)

(* create_url: the first url named is kept, and r.id is the answer. *)
UrlCreated(r, song) == [r EXCEPT !.url = IF @ = NoSong THEN song ELSE @]

(* set_tag, add_subsong, add_sample and add_instrument, by an id. *)
Pushed(r, id, song) ==
  [r EXCEPT !.songs = @ \cup {song}, !.foreign = @ \/ id # r.id]

(* Every song the record says something of. *)
SongsOf(r) == r.songs \cup ({r.url} \ {NoSong})
=============================================================================
