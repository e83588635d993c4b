----------------------------- MODULE Enrichment -----------------------------
(***************************************************************************)
(* What the Hub adds to closed rows afterwards: addresses of drive ends    *)
(* and charges, from a geocoder, and elevations of positions, from terrain *)
(* tiles (run_address_enrichment_once_guarded, run_terrain_enrichment_pass *)
(* and the store operations they call).  Both wait for a network between   *)
(* reading the store and writing it; drives close meanwhile, the process   *)
(* crashes or loses its right to write, and starts again, perhaps with     *)
(* another geocoder language.                                              *)
(*                                                                         *)
(* One vehicle.  Its positions have ids 1..N in the order they were        *)
(* materialised; a place is what remains of a coordinate after rounding.   *)
(***************************************************************************)
EXTENDS Integers, Sequences, FiniteSets, SequencesExt, FiniteSetsExt

CONSTANTS Ground,        \* position -> the elevation of its tile, NoHeight where the tile is void
          DriveOf,       \* position -> its drive
          DateOf,        \* position -> its time, which need not follow its id
          StreamedDrives,\* drives with a position the stream brought
          Band,          \* K_ELEV_BAND
          PageLimit,     \* TERRAIN_PAGE_LIMIT
          RetryTicks,    \* TERRAIN_RETRY_DELAY
          FuseFailures,  \* failures within the window that blow the fuse
          FuseReset,     \* TERRAIN_FUSE_RESET, and the window before it
          PlaceOf,       \* address target -> its place
          Languages,     \* geocoder.language, as the owner may set it
          LeaseTicks,    \* the lease of a claimed job
          BackoffTicks,  \* the delay after the first failed attempt, doubled after each
          MaxBackoff,    \* and never longer than this
          Setups,        \* which of "terrain" and "geocoder" the configuration enables: sets of these
          MaxClock, MaxStarts

VARIABLES closedTo,  \* drives 1..closedTo are closed and their positions materialised
          heights,   \* position -> elevation of its row
          climb,     \* drive -> <<ascent, descent>> of its row
          told,      \* the sync journal: what it last said of each position and drive
          proven,    \* terrain_elevation_provenance: position -> [status, retry]
          cursor,    \* terrain_enrichment_state.cursor_position_id
          pass,      \* the terrain worker's pass: candidates, results, time
          fuse,      \* TerrainFuse: times of failures, and until when it is blown
          jobs,      \* address_enrichment_jobs
          address,   \* address field of the target's row
          lookups,   \* address_lookup_cache: key -> answer
          errand,    \* the job the loop is looking up
          language,  \* the language of this run's geocoder
          askedIn,   \* ghost: target -> the language of the run that answered it
          admitted,  \* this run may write
          setup,     \* what the configuration enables
          clock, starts

terrainVars == <<closedTo, heights, climb, told, proven, cursor, pass, fuse>>
addressVars == <<jobs, address, lookups, errand, askedIn>>
evars == <<terrainVars, addressVars, language, admitted, setup, clock, starts>>

NoHeight == -1
Positions == DOMAIN Ground
DriveIds == {DriveOf[p] : p \in Positions}
Targets == DOMAIN PlaceOf
NoPass == [page |-> <<>>, got |-> <<>>, at |-> 0, todo |-> "idle"]
NoErrand == <<>>

(***************************************************************************)
(* Ascent and descent of a list of elevations.                             *)
(***************************************************************************)
WalkStep(w, height) ==
  LET change == height - w.reference
      far == w.count > 0 /\ (change >= Band \/ -change >= Band)
  IN  IF height = NoHeight THEN w
      ELSE [reference |-> IF w.count = 0 \/ far THEN height ELSE w.reference,
            count |-> w.count + 1,
            ascent |-> w.ascent + (IF far /\ change > 0 THEN change ELSE 0),
            descent |-> w.descent + (IF far /\ change < 0 THEN -change ELSE 0)]

ElevationTotals(list) ==
  LET w == FoldLeft(WalkStep, [reference |-> 0, count |-> 0, ascent |-> 0, descent |-> 0], list)
  IN  IF w.count < 2 THEN <<>> ELSE <<w.ascent, w.descent>>


RecomputeTerrainDrive(all, d) ==
  LET ids == SelectSeq([p \in 1..Cardinality(Positions) |-> p], LAMBDA p : DriveOf[p] = d)
      sorted == SortSeq(ids, LAMBDA p, q : DateOf[p] < DateOf[q] \/ (DateOf[p] = DateOf[q] /\ p < q))
  IN  ElevationTotals([i \in 1..Len(sorted) |-> all[sorted[i]]])

(***************************************************************************)
(* One pass of the terrain worker: the candidates are read, each is looked *)
(* up with a wait in between, and the results are written one transaction  *)
(* after another.                                                          *)
(***************************************************************************)
TerrainCandidates ==
  SelectSeq([p \in 1..Cardinality(Positions) |-> p],
    LAMBDA p : /\ DriveOf[p] <= closedTo /\ DriveOf[p] \notin StreamedDrives
               /\ heights[p] = NoHeight
               /\ proven[p].status = "none" \/ (proven[p].status = "failed" /\ proven[p].retry <= clock)
               /\ p > cursor \/ proven[p].status = "failed")

FuseAvailable(f) == clock >= f.until

FuseFailure(f) ==
  LET fresh == IF f.until > 0 /\ clock >= f.until THEN {} ELSE {t \in f.failures : clock - t.at < FuseReset}
      now == fresh \cup {[at |-> clock, n |-> Cardinality(fresh)]}
  IN  [failures |-> now, until |-> IF Cardinality(now) >= FuseFailures THEN clock + FuseReset ELSE 0]

BeginTerrainPass ==
  /\ "terrain" \in setup /\ admitted /\ pass.todo = "idle" /\ FuseAvailable(fuse) /\ TerrainCandidates # <<>>
  /\ pass' = [NoPass EXCEPT !.page = SubSeq(TerrainCandidates, 1, Min({PageLimit, Len(TerrainCandidates)})),
                            !.at = clock, !.todo = "look"]
  /\ UNCHANGED <<closedTo, heights, climb, told, proven, cursor, fuse, addressVars, language, admitted, setup, clock, starts>>

\* The lookup of the next candidate answers, or fails and burns the fuse.
TerrainLookup(found) ==
  /\ admitted /\ pass.todo = "look" /\ Len(pass.got) < Len(pass.page) /\ FuseAvailable(fuse)
  /\ pass' = [pass EXCEPT !.got = Append(@, found)]
  /\ fuse' = IF found THEN fuse ELSE FuseFailure(fuse)
  /\ UNCHANGED <<closedTo, heights, climb, told, proven, cursor, addressVars, language, admitted, setup, clock, starts>>

\* The page is done, or the fuse has blown: the worker has the publication gate and starts to write.
TerrainGate ==
  /\ admitted /\ pass.todo = "look" /\ (Len(pass.got) = Len(pass.page) \/ ~FuseAvailable(fuse))
  /\ pass' = [pass EXCEPT !.todo = "write"]
  /\ UNCHANGED <<closedTo, heights, climb, told, proven, cursor, fuse, addressVars, language, admitted, setup, clock, starts>>

\* Mutant: the cursor goes to the end of the page with the first result.
AdvanceTerrainCursorPage(p) == IF cursor < pass.page[Len(pass.page)] THEN pass.page[Len(pass.page)] ELSE cursor

AdvanceTerrainCursor(p) == IF cursor < p THEN p ELSE cursor

UpsertTerrainProvenance(p, status, retry) == [proven EXCEPT ![p] = [status |-> status, retry |-> retry]]

ApplyTerrainResult(p) ==
  LET changed == heights[p] = NoHeight /\ Ground[p] # NoHeight
      d == DriveOf[p]
      all == [heights EXCEPT ![p] = IF changed THEN Ground[p] ELSE @]
  IN  /\ heights' = all
      /\ climb' = IF changed THEN [climb EXCEPT ![d] = RecomputeTerrainDrive(all, d)] ELSE climb
      /\ told' = IF changed THEN [told EXCEPT !.heights[p] = all[p], !.climb[d] = climb'[d]] ELSE told
      /\ proven' = UpsertTerrainProvenance(p, IF Ground[p] # NoHeight THEN "success" ELSE "void", 0)

RecordTerrainFailure(p) ==
  /\ proven' = UpsertTerrainProvenance(p, "failed", pass.at + RetryTicks)
  /\ UNCHANGED <<heights, climb, told>>

TerrainWrite ==
  /\ admitted /\ pass.todo = "write" /\ pass.got # <<>>
  /\ IF Head(pass.got) THEN ApplyTerrainResult(Head(pass.page)) ELSE RecordTerrainFailure(Head(pass.page))
  /\ cursor' = AdvanceTerrainCursor(Head(pass.page))
  /\ pass' = [pass EXCEPT !.page = Tail(@), !.got = Tail(@)]
  /\ UNCHANGED <<closedTo, fuse, addressVars, language, admitted, setup, clock, starts>>

EndTerrainPass ==
  /\ pass.todo = "write" /\ pass.got = <<>>
  /\ pass' = NoPass
  /\ UNCHANGED <<closedTo, heights, climb, told, proven, cursor, fuse, addressVars, language, admitted, setup, clock, starts>>

(***************************************************************************)
(* Address jobs.                                                           *)
(***************************************************************************)
Due == {t \in DOMAIN jobs : \/ jobs[t].status \in {"pending", "retry"} /\ jobs[t].next <= clock
                            \/ jobs[t].status = "running" /\ jobs[t].lease <= clock}

ClaimAddressEnrichmentJob(t) ==
  /\ "geocoder" \in setup /\ admitted /\ errand = NoErrand /\ t \in Due
  /\ \A o \in Due : jobs[t].next < jobs[o].next \/ (jobs[t].next = jobs[o].next /\ t <= o)
  /\ jobs' = [jobs EXCEPT ![t].status = "running", ![t].attempts = @ + 1, ![t].lease = clock + LeaseTicks]
  /\ errand' = <<[target |-> t, attempts |-> jobs[t].attempts + 1, at |-> clock, answer |-> <<>>]>>
  /\ UNCHANGED <<terrainVars, address, lookups, askedIn, language, admitted, setup, clock, starts>>

\* Mutant: the key leaves out the language.
AddressLookupKeyPlace(place) == <<"any", place>>

AddressLookupKey(place) == <<language, place>>

CachedAddress(place) == IF AddressLookupKey(place) \in DOMAIN lookups THEN <<lookups[AddressLookupKey(place)]>> ELSE <<>>

\* What the geocoder says of a place, in the language asked for.
ReverseGeocode(place) == [place |-> place, lang |-> language]

\* A later lookup rewrites only the row of its own key.
PutAddressCache(place, found) ==
  [k \in DOMAIN lookups \cup {AddressLookupKey(place)} |-> IF k = AddressLookupKey(place) THEN found ELSE lookups[k]]

\* An error object, and an answer without an identity or a name, are no address.
ParseResponse(reply) == IF reply \in {"no_result", "malformed"} THEN "none" ELSE reply

\* The answer comes from the cache, or from the geocoder, and is then cached.
ReverseCached ==
  /\ admitted /\ errand # NoErrand /\ errand[1].answer = <<>>
  /\ LET place == PlaceOf[errand[1].target]
         found == IF CachedAddress(place) # <<>> THEN CachedAddress(place)[1] ELSE ReverseGeocode(place)
     IN  /\ errand' = <<[errand[1] EXCEPT !.answer = <<found>>]>>
         /\ lookups' = IF CachedAddress(place) # <<>> THEN lookups ELSE PutAddressCache(place, found)
  /\ UNCHANGED <<terrainVars, jobs, address, askedIn, language, admitted, setup, clock, starts>>

Complete(t) == [jobs EXCEPT ![t].status = "complete", ![t].lease = 0]

CompleteAddressEnrichment ==
  /\ admitted /\ errand # NoErrand /\ errand[1].answer # <<>>
  /\ LET t == errand[1].target
     IN  /\ jobs' = Complete(t)
         /\ IF address[t] = <<>>
            THEN address' = [address EXCEPT ![t] = errand[1].answer] /\ askedIn' = [askedIn EXCEPT ![t] = language]
            ELSE UNCHANGED <<address, askedIn>>
  /\ errand' = NoErrand
  /\ UNCHANGED <<terrainVars, lookups, language, admitted, setup, clock, starts>>

\* The geocoder knows nothing of the place: the job is complete without an address.
NoAddressFound(reply) ==
  /\ admitted /\ errand # NoErrand /\ errand[1].answer = <<>> /\ ParseResponse(reply) = "none"
  /\ CachedAddress(PlaceOf[errand[1].target]) = <<>>
  /\ jobs' = Complete(errand[1].target) /\ errand' = NoErrand
  /\ UNCHANGED <<terrainVars, address, lookups, askedIn, language, admitted, setup, clock, starts>>

RetryAddressEnrichment ==
  /\ admitted /\ errand # NoErrand /\ errand[1].answer = <<>>
  /\ CachedAddress(PlaceOf[errand[1].target]) = <<>>
  /\ jobs' = [jobs EXCEPT ![errand[1].target].status = "retry", ![errand[1].target].lease = 0,
                          ![errand[1].target].next = errand[1].at + Min({MaxBackoff, BackoffTicks * 2 ^ (errand[1].attempts - 1)})]
  /\ errand' = NoErrand
  /\ UNCHANGED <<terrainVars, address, lookups, askedIn, language, admitted, setup, clock, starts>>

(***************************************************************************)
(* The collector closes the next drive; time; the process.                 *)
(***************************************************************************)
EnqueueAddressJobs(t) ==
  IF t \in DOMAIN jobs THEN jobs
  ELSE [k \in DOMAIN jobs \cup {t} |-> IF k = t THEN [status |-> "pending", attempts |-> 0, next |-> 0, lease |-> 0] ELSE jobs[k]]

CloseNextDrive ==
  /\ admitted /\ closedTo < Cardinality(DriveIds)
  /\ closedTo' = closedTo + 1
  /\ jobs' = IF closedTo' \in Targets THEN EnqueueAddressJobs(closedTo') ELSE jobs
  /\ UNCHANGED <<heights, climb, told, proven, cursor, pass, fuse, address, lookups, errand, askedIn, language, admitted, setup, clock, starts>>

PassTime ==
  /\ clock < MaxClock /\ clock' = clock + 1
  /\ UNCHANGED <<terrainVars, addressVars, language, admitted, setup, starts>>

\* The run loses its right to write: every later write is refused, and the run ends.
LoseAdmission ==
  /\ admitted /\ starts < MaxStarts /\ admitted' = FALSE
  /\ UNCHANGED <<terrainVars, addressVars, language, setup, clock, starts>>

\* A crash, or the start after a loss: nothing of the run survives but the store.
StartAgain(lang) ==
  /\ starts < MaxStarts /\ starts' = starts + 1
  /\ admitted' = TRUE /\ language' = lang
  /\ pass' = NoPass /\ fuse' = [failures |-> {}, until |-> 0] /\ errand' = NoErrand
  /\ UNCHANGED <<closedTo, heights, climb, told, proven, cursor, jobs, address, lookups, askedIn, setup, clock>>

EInit ==
  /\ closedTo = 0 /\ heights = [p \in Positions |-> NoHeight] /\ climb = [d \in DriveIds |-> <<>>]
  /\ told = [heights |-> heights, climb |-> climb]
  /\ proven = [p \in Positions |-> [status |-> "none", retry |-> 0]]
  /\ cursor = 0 /\ pass = NoPass /\ fuse = [failures |-> {}, until |-> 0]
  /\ jobs = <<>> /\ address = [t \in Targets |-> <<>>] /\ lookups = <<>> /\ errand = NoErrand
  /\ askedIn = [t \in Targets |-> ""]
  /\ language \in Languages /\ admitted = TRUE /\ setup \in Setups /\ clock = 0 /\ starts = 0

ENext ==
  \/ BeginTerrainPass \/ TerrainGate \/ TerrainWrite \/ EndTerrainPass
  \/ \E found \in BOOLEAN : TerrainLookup(found)
  \/ \E t \in Targets : ClaimAddressEnrichmentJob(t)
  \/ ReverseCached \/ CompleteAddressEnrichment \/ NoAddressFound("no_result") \/ RetryAddressEnrichment
  \/ CloseNextDrive \/ PassTime \/ LoseAdmission
  \/ \E lang \in Languages : StartAgain(lang)

ESpec == EInit /\ [][ENext]_evars

(***************************************************************************)
(* Properties                                                              *)
(***************************************************************************)
\* The cursor of terrain_candidates passes over no position: one that belongs to a closed drive, has no
\* elevation and was never tried lies beyond it, whatever closed, failed, was cut short by the fuse or by
\* a lost admission, or crashed while the pass waited (advance_terrain_cursor).
CursorSkipsNone ==
  \A p \in Positions :
    DriveOf[p] <= closedTo /\ DriveOf[p] \notin StreamedDrives /\ heights[p] = NoHeight /\ proven[p].status = "none"
      => p > cursor


\* An address is that of its own place, in the language of the run that looked it up: an answer cached by
\* an earlier run with another language is not used, and a job claimed by that run and taken over after
\* its lease is asked again (address_lookup_key, cached_address, complete_address_enrichment).
AddressInLanguage ==
  \A t \in Targets : address[t] # <<>> => address[t] = <<[place |-> PlaceOf[t], lang |-> askedIn[t]]>>

=============================================================================
