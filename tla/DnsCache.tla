--------------------------------- MODULE DnsCache ---------------------------------
(* The cache of resolved names (http_trans.c) every thread that makes a    *)
(* request looks its host up in.  An item is claimed under dnsCacheMutex   *)
(* by its status, and used, refilled and given back without it.            *)
EXTENDS Integers

CONSTANTS Threads,  \* the threads that make requests
          Hosts,
          NoHost,   \* no name, no address, a failed lookup
          NItems    \* the items of dnsItems, 10 in the code

ASSUME DnsAssumption == NItems \in Nat \ {0} /\ NoHost \notin Hosts

VARIABLES dnsItems,       \* host, addrs (the host they are of), status, isValid
          dnsCacheMutex,  \* the thread that scans, or NoOne
          look            \* where each thread is in its lookup

dnsVars == <<dnsItems, dnsCacheMutex, look>>

NoOne == "none"
NoItem == 0
Items == 1 .. NItems

NotLooking == [pc |-> "idle", host |-> NoHost, i |-> NoItem, seen |-> FALSE,
               inValidIndex |-> NoItem, sinp |-> NoHost]

DnsInit ==
  /\ dnsItems = [i \in Items |-> [host |-> NoHost, addrs |-> NoHost, status |-> 0, isValid |-> FALSE]]
  /\ dnsCacheMutex = NoOne
  /\ look = [t \in Threads |-> NotLooking]

At(t, pc) == look[t].pc = pc
GoTo(t, pc) == look' = [look EXCEPT ![t].pc = pc]
Item(t) == dnsItems[look[t].i]

-----------------------------------------------------------------------------
(* get_host_by_name_from_cache: the scan, under the mutex.  The fields an  *)
(* item is tested by change meanwhile: isValid is read first, status next. *)

Lookup(t, host) ==
  /\ At(t, "idle") /\ dnsCacheMutex = NoOne /\ dnsCacheMutex' = t
  /\ look' = [look EXCEPT ![t] = [NotLooking EXCEPT !.pc = "scan", !.host = host, !.i = 1]]
  /\ UNCHANGED dnsItems

ReadValid(t) ==
  /\ At(t, "scan")
  /\ look' = [look EXCEPT ![t].seen = Item(t).isValid, ![t].pc = "test"]
  /\ UNCHANGED <<dnsItems, dnsCacheMutex>>

(* A plausible slip: the scan forgets that an invalid item may be in use.  *)
ClaimsAnyStatus(t) == ~look[t].seen /\ look[t].inValidIndex = NoItem

(* The first invalid item is marked even when a valid one follows.         *)
Claims(t) == ~look[t].seen /\ Item(t).status = 0 /\ look[t].inValidIndex = NoItem
Matches(t) == Item(t).isValid /\ Item(t).status = 0 /\ Item(t).host = look[t].host

Test(t) ==
  /\ At(t, "test")
  /\ LET i == look[t].i
         claim == IF Claims(t) THEN i ELSE look[t].inValidIndex
         found == ~Claims(t) /\ Matches(t)
         last == found \/ i = NItems IN
     /\ dnsItems' = [dnsItems EXCEPT ![i].status = IF Claims(t) THEN 1 ELSE IF found THEN 2 ELSE @]
     /\ dnsCacheMutex' = IF last THEN NoOne ELSE t
     /\ look' = [look EXCEPT ![t].inValidIndex = claim,
                   ![t].i = IF found THEN i ELSE IF last THEN claim ELSE i + 1,
                   ![t].pc = IF found THEN "found" ELSE IF ~last THEN "scan"
                             ELSE IF claim # NoItem THEN "clear" ELSE "done"]

(* A match: its addresses are copied, unless two hours have passed since   *)
(* they were resolved (the clock is free) or there are none.               *)
Found(t) ==
  /\ At(t, "found")
  /\ \/ Item(t).addrs # NoHost
        /\ look' = [look EXCEPT ![t].sinp = Item(t).addrs, ![t].pc = "release"]
     \/ GoTo(t, "clear")
  /\ UNCHANGED <<dnsItems, dnsCacheMutex>>

-----------------------------------------------------------------------------
(* update_dns_cache, without the mutex.                                    *)

Clear(t) ==
  /\ At(t, "clear") /\ GoTo(t, "resolve")
  /\ dnsItems' = [dnsItems EXCEPT ![look[t].i].addrs = NoHost, ![look[t].i].host = NoHost]
  /\ UNCHANGED dnsCacheMutex

(* get_host_by_name: the resolver knows the name, or not.                  *)
Resolve(t) ==
  /\ At(t, "resolve")
  /\ \/ /\ look' = [look EXCEPT ![t].sinp = look[t].host, ![t].pc = "publish"]
        /\ dnsItems' = [dnsItems EXCEPT ![look[t].i].addrs = look[t].host]
     \/ GoTo(t, "publish") /\ UNCHANGED dnsItems
  /\ UNCHANGED dnsCacheMutex

Publish(t) ==
  /\ At(t, "publish") /\ GoTo(t, "release")
  /\ dnsItems' = [dnsItems EXCEPT ![look[t].i].host = look[t].sinp,
                                  ![look[t].i].isValid = (look[t].sinp # NoHost)]
  /\ UNCHANGED dnsCacheMutex

Release(t) ==
  /\ At(t, "release") /\ GoTo(t, "done")
  /\ dnsItems' = [dnsItems EXCEPT ![look[t].i].status = 0]
  /\ UNCHANGED dnsCacheMutex

LookupStep(t) ==
  ReadValid(t) \/ Test(t) \/ Found(t) \/ Clear(t) \/ Resolve(t) \/ Publish(t) \/ Release(t)

(* The answer is used, and the thread is back at its next request.         *)
Forget(t) ==
  /\ At(t, "done") /\ look' = [look EXCEPT ![t] = NotLooking]
  /\ UNCHANGED <<dnsItems, dnsCacheMutex>>

LookingUp(t) == LookupStep(t) \/ Forget(t) \/ \E host \in Hosts : Lookup(t, host)

DnsNext == \E t \in Threads : LookingUp(t)
DnsSpec == DnsInit /\ [][DnsNext]_dnsVars

-----------------------------------------------------------------------------
(* A request is sent to the host it names: a lookup answers with an        *)
(* address of its own host or fails, and no thread reads, frees or refills *)
(* the addresses of an item while another thread does                      *)
(* (get_host_by_name_from_cache, update_dns_cache).                        *)
Uses(t) == look[t].pc \in {"found", "clear", "resolve", "publish", "release"}

AddressOfHost ==
  /\ \A t \in Threads : At(t, "done") => look[t].sinp \in {NoHost, look[t].host}
  /\ \A t, u \in Threads : Uses(t) /\ Uses(u) /\ look[t].i = look[u].i => t = u
=============================================================================
