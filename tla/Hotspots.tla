------------------------------ MODULE Hotspots -------------------------------
(***************************************************************************)
(* src/mt_hotspots.c: the table of allocation sites.  Entries are appended *)
(* until it is full, after which events of new sites are only counted.     *)
(***************************************************************************)
EXTENDS U32

CONSTANTS
  MaxHotspots,   (* MT_MAX_HOTSPOTS                                        *)
  File,          (* source files of call sites                             *)
  FileId,        (* the FNV1a hash of a file name: two files may collide   *)
  Line,          (* values of the int argument line                        *)
  LineMax        (* 65535 in the code                                      *)

ASSUME HotspotsAssumption ==
  /\ MaxHotspots \in Nat \ {0}
  /\ FileId \in [File -> Word]
  /\ Line \subseteq Int
  /\ LineMax \in Nat

VARIABLES
  hotspots,        (* g_hotspots                                           *)
  hotspots_used,   (* g_hotspots_used                                      *)
  hotspots_drop    (* g_hotspots_drop                                      *)

hotspotVars == <<hotspots, hotspots_used, hotspots_drop>>

(* A site as the tracker stores it: <<file_id, line>>, line in uint16_t    *)
Site == Word \X (0..LineMax)

ClampLine(n) == IF n < 0 THEN 0 ELSE IF n > LineMax THEN LineMax ELSE n

SiteOf(f, n) == <<FileId[f], ClampLine(n)>>

HotspotIndex == 0..(MaxHotspots - 1)

HotspotRec == [site : Site, allocs : Word, bytes : Word, last_seq : Word]

NoHotspot == [site |-> <<0, 0>>, allocs |-> 0, bytes |-> 0, last_seq |-> 0]

HotspotTypeOK ==
  /\ hotspots \in [HotspotIndex -> HotspotRec]
  /\ hotspots_used \in 0..MaxHotspots
  /\ hotspots_drop \in Word

(* mt_hotspot_init *)
HotspotInit ==
  /\ hotspots = [h \in HotspotIndex |-> NoHotspot]
  /\ hotspots_used = 0
  /\ hotspots_drop = 0

(* The search loop of mt_hotspot_record finds no entry of this site *)
NewSite(site) == \A h \in 0..(hotspots_used - 1) : hotspots[h].site # site

(* The site has an entry: its first one is updated *)
HotspotUpdate(site, n, s) ==
  /\ \E h \in 0..(hotspots_used - 1) :
       /\ hotspots[h].site = site
       /\ \A g \in 0..(h - 1) : hotspots[g].site # site
       /\ hotspots' = [hotspots EXCEPT ![h] =
                         [site |-> site,
                          allocs |-> Inc(@.allocs),
                          bytes |-> Trunc(@.bytes + n),
                          last_seq |-> s]]
  /\ UNCHANGED <<hotspots_used, hotspots_drop>>

HotspotInsert(site, n, s) ==
  /\ NewSite(site)
  /\ hotspots_used < MaxHotspots
  /\ hotspots' = [hotspots EXCEPT ![hotspots_used] =
                    [site |-> site, allocs |-> 1, bytes |-> n, last_seq |-> s]]
  /\ hotspots_used' = hotspots_used + 1
  /\ UNCHANGED hotspots_drop

(* Mutant of HotspotOverflow: the lost event is not counted *)
HotspotOverflowSilent(site) ==
  /\ NewSite(site)
  /\ hotspots_used >= MaxHotspots
  /\ UNCHANGED hotspotVars

HotspotOverflow(site) ==
  /\ NewSite(site)
  /\ hotspots_used >= MaxHotspots
  /\ hotspots_drop' = Inc(hotspots_drop)
  /\ UNCHANGED <<hotspots, hotspots_used>>

(* mt_hotspot_record: one allocation of n bytes at site, numbered s *)
HotspotRecord(site, n, s) ==
  \/ HotspotUpdate(site, n, s)
  \/ HotspotInsert(site, n, s)
  \/ HotspotOverflow(site)

=============================================================================
