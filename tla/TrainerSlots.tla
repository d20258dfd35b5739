---------------------------- MODULE TrainerSlots ----------------------------
(***************************************************************************)
(* The trainers: the panel keeps how many there are and where, and sends   *)
(* one line of it to the host; the mod reads the line every minute and     *)
(* puts the trainers into the world.  Every request sends the same         *)
(* temporary file, from a thread, while the handlers of others write and   *)
(* remove it.                                                              *)
(*                                                                         *)
(* A setting is the number of the request that made it.                    *)
(***************************************************************************)
EXTENDS Integers

CONSTANTS
    MaxSlots,   \* MAX_SLOTS
    CountOf,    \* the trainers that each setting asks for
    Sendings,   \* requests that may be under way side by side
    MaxSets,    \* bound: settings
    MaxSlotDies \* bound: times the panel dies or the game restarts

VARIABLES
    stored,     \* slots.json
    localLine,  \* mb_slots.txt under the panel's own cachedirs
    temp,       \* .mb_slots.txt: {} if there is none
    hostLine,   \* mb_slots.txt on the host
    sendings,   \* the requests
    listed,     \* the trainers in ModData, which the clients show
    bodies,     \* those of which the mod has a living body
    slotDies    \* counter of the bounded events

slotVars == <<stored, localLine, temp, hostLine, sendings, listed, bodies, slotDies>>

\* A file with nothing in it, or none on the host: no trainers for the mod.
Blank == 0
Settings == Blank .. MaxSets

SlotsInit ==
    /\ stored = Blank /\ localLine = Blank /\ temp = {} /\ hostLine = Blank
    /\ sendings = [r \in Sendings |-> [pc |-> "idle", own |-> Blank, hash |-> Blank,
                                       read |-> Blank]]
    /\ listed = {} /\ bodies = {} /\ slotDies = 0

\* A handler between two statements keeps the event loop to itself.
LoopFree == \A r \in Sendings : sendings[r].pc # "temp"
-----------------------------------------------------------------------------
(* A request. *)

\* set_slots; with push_ftp the temporary file is then opened, which empties it.
SetSlots(r, push) ==
    /\ LoopFree /\ sendings[r].pc \in {"idle", "ok", "failed", "kept"} /\ stored < MaxSets
    /\ stored' = stored + 1 /\ localLine' = stored'
    /\ temp' = IF push THEN {Blank} ELSE temp
    /\ sendings' = [sendings EXCEPT ![r] = [@ EXCEPT !.own = stored',
                                                     !.pc = IF push THEN "temp" ELSE "kept"]]
    /\ UNCHANGED <<hostLine, listed, bodies, slotDies>>

\* write_temp_line.
Line(r) == {sendings[r].own}

WriteTemp(r) ==
    /\ sendings[r].pc = "temp"
    /\ temp' = Line(r)
    /\ sendings' = [sendings EXCEPT ![r].pc = "hash"]
    /\ UNCHANGED <<stored, localLine, hostLine, listed, bodies, slotDies>>

\* upload_file: the MD5 of the file is taken ...
Hash(r) ==
    /\ sendings[r].pc = "hash"
    /\ \E content \in temp :
          sendings' = [sendings EXCEPT ![r] = [@ EXCEPT !.pc = "put", !.hash = content]]
    /\ UNCHANGED <<stored, localLine, temp, hostLine, listed, bodies, slotDies>>

\* ... the file is read again, and the one on the host is empty until it is sent ...
PutOpens(r) ==
    /\ sendings[r].pc = "put"
    /\ \E content \in temp :
          sendings' = [sendings EXCEPT ![r] = [@ EXCEPT !.pc = "send", !.read = content]]
    /\ hostLine' = Blank
    /\ UNCHANGED <<stored, localLine, temp, listed, bodies, slotDies>>

PutEnds(r) ==
    /\ sendings[r].pc = "send"
    /\ hostLine' = sendings[r].read
    /\ sendings' = [sendings EXCEPT ![r] = [@ EXCEPT !.pc = "verify", !.read = Blank]]
    /\ UNCHANGED <<stored, localLine, temp, listed, bodies, slotDies>>

\* Mutant: only the sizes are compared.
SameSize(r) == hostLine # Blank \/ sendings[r].hash = Blank

\* ... and what the host has is compared with the MD5.
Verified(r) == hostLine = sendings[r].hash

Verify(r) ==
    /\ sendings[r].pc = "verify"
    /\ sendings' = [sendings EXCEPT ![r].pc = IF Verified(r) THEN "good" ELSE "bad"]
    /\ UNCHANGED <<stored, localLine, temp, hostLine, listed, bodies, slotDies>>

\* The file is gone, removed by the other request, or the connection breaks.
UploadFails(r) ==
    /\ sendings[r].pc \in {"hash", "put", "send", "verify"}
    /\ sendings' = [sendings EXCEPT ![r] = [@ EXCEPT !.pc = "bad", !.read = Blank]]
    /\ UNCHANGED <<stored, localLine, temp, hostLine, listed, bodies, slotDies>>

\* The handler removes the temporary file, whoever wrote it, and answers.
SendingEnds(r) ==
    /\ LoopFree /\ sendings[r].pc \in {"good", "bad"}
    /\ temp' = {}
    /\ sendings' = [sendings EXCEPT ![r].pc = IF @ = "good" THEN "ok" ELSE "failed"]
    /\ UNCHANGED <<stored, localLine, hostLine, listed, bodies, slotDies>>

\* The temporary file stays.
PanelDies ==
    /\ slotDies < MaxSlotDies
    /\ slotDies' = slotDies + 1
    /\ sendings' = [r \in Sendings |-> [pc |-> "idle", own |-> Blank, hash |-> Blank,
                                        read |-> Blank]]
    /\ UNCHANGED <<stored, localLine, temp, hostLine, listed, bodies>>
-----------------------------------------------------------------------------
(* The mod. *)

\* activeList: the first ones of the roster.
Active(line) == 1 .. (IF line = Blank THEN 0 ELSE CountOf[line])

(***************************************************************************)
(* tick: the list is published, bodies of trainers no longer wanted are    *)
(* removed, and missing ones put up where a square can be had.             *)
(***************************************************************************)
ModTick ==
    /\ listed' = Active(hostLine)
    /\ \E spawned \in SUBSET (Active(hostLine) \ bodies) :
          bodies' = (bodies \cap Active(hostLine)) \cup spawned
    /\ UNCHANGED <<stored, localLine, temp, hostLine, sendings, slotDies>>

BodyDies(t) ==
    /\ t \in bodies
    /\ bodies' = bodies \ {t}
    /\ UNCHANGED <<stored, localLine, temp, hostLine, sendings, listed, slotDies>>

\* The mod knows no bodies; those that were saved with the world stay there.
GameRestarts ==
    /\ slotDies < MaxSlotDies
    /\ slotDies' = slotDies + 1
    /\ bodies' = {}
    /\ UNCHANGED <<stored, localLine, temp, hostLine, sendings, listed>>

SlotsNext ==
    \/ \E r \in Sendings, push \in BOOLEAN : SetSlots(r, push)
    \/ \E r \in Sendings : WriteTemp(r) \/ Hash(r) \/ PutOpens(r) \/ PutEnds(r) \/ Verify(r)
                              \/ UploadFails(r) \/ SendingEnds(r)
    \/ PanelDies \/ ModTick \/ GameRestarts
    \/ \E t \in 1 .. MaxSlots : BodyDies(t)

SlotsSpec == SlotsInit /\ [][SlotsNext]_slotVars
-----------------------------------------------------------------------------
SlotsTypeOK ==
    /\ {stored, localLine, hostLine} \cup temp \subseteq Settings
    /\ sendings \in [Sendings -> [pc : {"idle", "temp", "hash", "put", "send", "verify", "good",
                                        "bad", "ok", "failed", "kept"},
                                  own : Settings, hash : Settings, read : Settings]]
    /\ listed \cup bodies \subseteq 1 .. MaxSlots
    /\ slotDies \in 0 .. MaxSlotDies

(***************************************************************************)
(* A request whose upload was found good had sent its own setting or a     *)
(* newer one, never an older one, whatever the other requests did to the   *)
(* temporary file and whatever a panel that died left of it; or it caught  *)
(* that file empty, in the middle of another request's writing             *)
(* (api_slots_set, write_temp_line, upload_file).  At that moment the host *)
(* has what was sent.                                                      *)
(***************************************************************************)
SentIsNotOlder ==
    [][\A r \in Sendings : sendings[r].pc = "verify" /\ sendings'[r].pc = "good" =>
          hostLine = Blank \/ hostLine >= sendings[r].own]_slotVars
=============================================================================
