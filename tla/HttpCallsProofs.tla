----------------------------- MODULE HttpCallsProofs -----------------------------
(***************************************************************************)
(* The cache of names is safe for every number of threads, hosts and       *)
(* items, on its own and under the requests of HttpCalls; and what a       *)
(* caller is told of its request is true, for every form, every way an     *)
(* answer's body is cut, and every size of a read, a write and a buffer.   *)
(***************************************************************************)
EXTENDS HttpCalls, SequenceTheorems, WellFoundedInduction, TLAPS

Names == Hosts \cup {NoHost}   \* a name, an address by its name, or none
Places == {"idle", "scan", "test", "found", "clear", "resolve", "publish", "release", "done"}
Using == {"found", "clear", "resolve", "publish", "release"}
Scanning == {"scan", "test"}

Entry == [host : Names, addrs : Names, status : 0 .. 2, isValid : BOOLEAN]
Cursor == [pc : Places, host : Names, i : 0 .. NItems, seen : BOOLEAN,
           inValidIndex : 0 .. NItems, sinp : Names]

DnsTyped == dnsItems \in [Items -> Entry] /\ look \in [Threads -> Cursor]

(* The item a thread may write without the mutex: the one it uses, or the  *)
(* one it has marked on its way through the scan.                          *)
Holds(c, k) ==
  \/ c.pc \in Using /\ c.i = k
  \/ c.pc \in Scanning /\ c.inValidIndex = k

(* An item that is held is marked by its status, and held once.            *)
Exclusive ==
  \A k \in Items :
    /\ \A t \in Threads : Holds(look[t], k) => dnsItems[k].status # 0
    /\ \A t, u \in Threads : Holds(look[t], k) /\ Holds(look[u], k) => t = u

(* An item that has a name has the addresses of that name, held or not.    *)
Whole(e) == e.host \in {NoHost, e.addrs}
Coherent == \A k \in Items : Whole(dnsItems[k])

(* What a thread can rely on at each point of its lookup.                  *)
Known(c, items) ==
  /\ c.pc # "idle" => c.host \in Hosts
  /\ c.pc \in Scanning \cup Using => c.i \in Items
  /\ c.pc \in Scanning \cup {"found", "clear", "resolve"} => c.sinp = NoHost
  /\ c.pc = "found" => items[c.i].host = c.host
  /\ c.pc = "resolve" => items[c.i].host = NoHost /\ items[c.i].addrs = NoHost
  /\ c.pc = "publish" => items[c.i].host = NoHost /\ items[c.i].addrs = c.sinp
  /\ c.pc \in {"publish", "release", "done"} => c.sinp \in {NoHost, c.host}

DnsInv == DnsTyped /\ Exclusive /\ Coherent /\ \A t \in Threads : Known(look[t], dnsItems)

-----------------------------------------------------------------------------
(* A step of thread t that moves it to c and sets item k to e keeps the    *)
(* invariant when it writes an item that is free or its own, and holds     *)
(* then what it held before or what was free.                              *)
LEMMA StepInv ==
  ASSUME DnsInv, NEW t \in Threads, NEW c \in Cursor, NEW k \in Items, NEW e \in Entry,
         look' = [look EXCEPT ![t] = c],
         dnsItems' = [dnsItems EXCEPT ![k] = e],
         e = dnsItems[k] \/ dnsItems[k].status = 0 \/ Holds(look[t], k),
         Whole(e),
         \A j \in Items : Holds(c, j) =>
           /\ dnsItems'[j].status # 0
           /\ Holds(look[t], j) \/ dnsItems[j].status = 0,
         Known(c, dnsItems')
  PROVE  DnsInv'
  <1>1. DnsTyped'
    BY DEF DnsInv, DnsTyped
  <1>2. look'[t] = c /\ \A u \in Threads \ {t} : look'[u] = look[u]
    BY DEF DnsInv, DnsTyped
  <1>3. dnsItems'[k] = e /\ \A j \in Items \ {k} : dnsItems'[j] = dnsItems[j]
    BY DEF DnsInv, DnsTyped
  <1>4. \A u \in Threads \ {t}, j \in Items : Holds(look[u], j) => dnsItems'[j] = dnsItems[j]
    BY <1>3 DEF DnsInv, Exclusive
  <1>5. Exclusive'
    <2>1. \A u \in Threads, j \in Items : Holds(look'[u], j) => dnsItems'[j].status # 0
      BY <1>2, <1>4 DEF DnsInv, Exclusive
    <2>2. ASSUME NEW u \in Threads, NEW v \in Threads, NEW j \in Items,
                 Holds(look'[u], j), Holds(look'[v], j), u # v
          PROVE  FALSE
      <3>1. \A x \in Threads : Holds(look'[x], j) => Holds(look[x], j) \/ dnsItems[j].status = 0
        BY <1>2
      <3>2. \E x \in {u, v} : x # t /\ Holds(look[x], j)
        BY <1>2, <2>2
      <3>3. QED BY <3>1, <3>2, <2>2 DEF DnsInv, Exclusive
    <2>3. QED BY <2>1, <2>2 DEF Exclusive
  <1>6. Coherent'
    BY <1>3 DEF DnsInv, Coherent
  <1>7. ASSUME NEW u \in Threads PROVE Known(look'[u], dnsItems')
    <2>1. CASE u = t
      BY <2>1, <1>2
    <2>2. CASE u # t
      <3>1. Known(look[u], dnsItems) /\ look'[u] = look[u]
        BY <2>2, <1>2 DEF DnsInv
      <3>2. look[u].pc \in Using => dnsItems'[look[u].i] = dnsItems[look[u].i]
        BY <3>1, <1>4, <2>2 DEF Known, Holds
      <3>3. QED BY <3>1, <3>2 DEF Known, Using
    <2>3. QED BY <2>1, <2>2
  <1>8. QED BY <1>1, <1>5, <1>6, <1>7 DEF DnsInv

(* A step that leaves the items alone.                                     *)
LEMMA MoveInv ==
  ASSUME DnsInv, NEW t \in Threads, NEW c \in Cursor,
         look' = [look EXCEPT ![t] = c], dnsItems' = dnsItems,
         \A j \in Items : Holds(c, j) => Holds(look[t], j),
         Known(c, dnsItems)
  PROVE  DnsInv'
  <1>1. 1 \in Items
    BY DnsAssumption DEF DnsAssumption, Items
  <1>2. dnsItems[1] \in Entry /\ dnsItems' = [dnsItems EXCEPT ![1] = dnsItems[1]] /\ Whole(dnsItems[1])
    BY <1>1 DEF DnsInv, DnsTyped, Coherent
  <1>3. \A j \in Items : Holds(c, j) =>
          /\ dnsItems'[j].status # 0
          /\ Holds(look[t], j) \/ dnsItems[j].status = 0
    BY DEF DnsInv, Exclusive
  <1>4. Known(c, dnsItems')
    OBVIOUS
  <1> DEFINE e == dnsItems[1]
  <1>5. e \in Entry /\ e = dnsItems[1] /\ dnsItems' = [dnsItems EXCEPT ![1] = e] /\ Whole(e)
    BY <1>2
  <1> HIDE DEF e
  <1>6. QED BY <1>1, <1>3, <1>4, <1>5, StepInv

LEMMA DnsInitInv == DnsInit => DnsInv
  <1> SUFFICES ASSUME DnsInit PROVE DnsInv
    OBVIOUS
  <1>1. NotLooking \in Cursor /\ [host |-> NoHost, addrs |-> NoHost, status |-> 0, isValid |-> FALSE] \in Entry
    BY DnsAssumption DEF DnsAssumption, NotLooking, Cursor, Entry, Places, Names, NoItem
  <1>2. DnsTyped
    BY <1>1 DEF DnsInit, DnsTyped
  <1>3. \A t \in Threads : look[t].pc = "idle"
    BY DEF DnsInit, NotLooking
  <1>4. Coherent
    BY DEF DnsInit, Coherent, Whole
  <1>5. QED BY <1>2, <1>3, <1>4 DEF DnsInv, Exclusive, Holds, Known, Using, Scanning

-----------------------------------------------------------------------------
(* The steps of get_host_by_name_from_cache and update_dns_cache.          *)

LEMMA LookupInv ==
  ASSUME DnsInv, NEW t \in Threads, NEW host \in Hosts, Lookup(t, host)
  PROVE  DnsInv'
  <1> DEFINE c == [NotLooking EXCEPT !.pc = "scan", !.host = host, !.i = 1]
  <1>1. /\ c.pc = "scan" /\ c.host = host /\ c.i = 1 /\ c.inValidIndex = 0 /\ c.sinp = NoHost
        /\ c \in Cursor
    <2>1. NotLooking \in Cursor /\ "scan" \in Places /\ host \in Names /\ 1 \in 0 .. NItems
      BY DnsAssumption DEF DnsAssumption, NotLooking, Cursor, Places, Names, NoItem
    <2>2. QED BY <2>1 DEF Cursor, NotLooking, NoItem
  <1>2. 1 \in Items /\ 0 \notin Items
    BY DnsAssumption DEF DnsAssumption, Items
  <1>3. \A j \in Items : ~Holds(c, j)
    BY <1>1, <1>2 DEF Holds, Using
  <1>4. Known(c, dnsItems)
    BY <1>1, <1>2 DEF Known, Scanning, Using
  <1>5. look' = [look EXCEPT ![t] = c] /\ dnsItems' = dnsItems
    BY DEF Lookup
  <1> HIDE DEF c
  <1>6. QED BY <1>1, <1>3, <1>4, <1>5, MoveInv

LEMMA ReadValidInv ==
  ASSUME DnsInv, NEW t \in Threads, ReadValid(t)
  PROVE  DnsInv'
  <1> DEFINE l == look[t]
             c == [l EXCEPT !.seen = dnsItems[l.i].isValid, !.pc = "test"]
  <1>1. l \in Cursor /\ l.pc = "scan" /\ l.i \in Items /\ Known(l, dnsItems)
    BY DEF DnsInv, DnsTyped, ReadValid, At, Known, Scanning
  <1>2. dnsItems[l.i].isValid \in BOOLEAN
    BY <1>1 DEF DnsInv, DnsTyped, Entry
  <1>3. c \in Cursor
    BY <1>1, <1>2 DEF Cursor, Places
  <1>4. /\ c.pc = "test" /\ c.host = l.host /\ c.i = l.i
        /\ c.inValidIndex = l.inValidIndex /\ c.sinp = l.sinp
    BY <1>1 DEF Cursor
  <1>5. Known(c, dnsItems) /\ \A j \in Items : Holds(c, j) => Holds(l, j)
    BY <1>1, <1>4 DEF Known, Holds, Using, Scanning
  <1>6. look' = [look EXCEPT ![t] = c] /\ dnsItems' = dnsItems
    BY <1>1 DEF ReadValid, Item, DnsInv, DnsTyped
  <1> HIDE DEF c
  <1>7. QED BY <1>3, <1>5, <1>6, MoveInv

(* Test marks the item it is at, when nobody has, or goes on to the next.  *)
LEMMA TestInv ==
  ASSUME DnsInv, NEW t \in Threads, Test(t)
  PROVE  DnsInv'
  <1> DEFINE l == look[t]
             k == l.i
             claim == IF Claims(t) THEN k ELSE l.inValidIndex
             found == ~Claims(t) /\ Matches(t)
             last == found \/ k = NItems
             i == IF found THEN k ELSE IF last THEN claim ELSE k + 1
             pc == IF found THEN "found" ELSE IF ~last THEN "scan"
                   ELSE IF claim # NoItem THEN "clear" ELSE "done"
             status == IF Claims(t) THEN 1 ELSE IF found THEN 2 ELSE dnsItems[k].status
             c == [l EXCEPT !.inValidIndex = claim, !.i = i, !.pc = pc]
             e == [dnsItems[k] EXCEPT !.status = status]
  <1>1. l \in Cursor /\ l.pc = "test" /\ k \in Items /\ Known(l, dnsItems)
    BY DEF DnsInv, DnsTyped, Test, At, Known, Scanning
  <1>2. dnsItems[k] \in Entry /\ Whole(dnsItems[k])
    BY <1>1 DEF DnsInv, DnsTyped, Coherent
  <1>3. claim \in 0 .. NItems /\ i \in 0 .. NItems /\ pc \in Places /\ status \in 0 .. 2
    BY <1>1, <1>2, DnsAssumption DEF DnsAssumption, Cursor, Entry, Places, Items
  <1>4. c \in Cursor /\ e \in Entry
    BY <1>1, <1>2, <1>3 DEF Cursor, Entry
  <1>5. /\ c.pc = pc /\ c.host = l.host /\ c.i = i /\ c.inValidIndex = claim /\ c.sinp = l.sinp
        /\ e.host = dnsItems[k].host /\ e.addrs = dnsItems[k].addrs /\ e.status = status
    BY <1>1, <1>2 DEF Cursor, Entry
  <1>6. look' = [look EXCEPT ![t] = c] /\ dnsItems' = [dnsItems EXCEPT ![k] = e]
    BY <1>1, <1>2 DEF Test, DnsInv, DnsTyped, Item
  <1>7. dnsItems'[k] = e /\ \A j \in Items \ {k} : dnsItems'[j] = dnsItems[j]
    BY <1>1, <1>4, <1>6 DEF DnsInv, DnsTyped
  <1>8. e = dnsItems[k] \/ dnsItems[k].status = 0
    BY <1>1, <1>2 DEF Claims, Matches, Item, Entry
  <1>9. \A j \in Items : Holds(c, j) =>
          /\ dnsItems'[j].status # 0
          /\ Holds(l, j) \/ dnsItems[j].status = 0
    <2> SUFFICES ASSUME NEW j \in Items, Holds(c, j)
                 PROVE  dnsItems'[j].status # 0 /\ (Holds(l, j) \/ dnsItems[j].status = 0)
      OBVIOUS
    <2>1. CASE Claims(t)
      <3>1. status = 1 /\ claim = k /\ ~found /\ l.inValidIndex = NoItem /\ dnsItems[k].status = 0
        BY <2>1 DEF Claims, Item
      <3>2. j = k
        BY <3>1, <1>5, <1>1, DnsAssumption DEF Holds, Using, Scanning, Items, DnsAssumption
      <3>3. QED BY <3>1, <3>2, <1>5, <1>7
    <2>2. CASE found
      <3>1. status = 2 /\ dnsItems[k].status = 0
        BY <2>2 DEF Matches, Item
      <3>2. j = k
        BY <2>2, <1>5 DEF Holds, Using, Scanning
      <3>3. QED BY <3>1, <3>2, <1>5, <1>7
    <2>3. CASE ~Claims(t) /\ ~found
      <3>1. status = dnsItems[k].status /\ claim = l.inValidIndex
        BY <2>3
      <3>2. Holds(l, j)
        BY <2>3, <1>5, <1>1 DEF Holds, Using, Scanning, NoItem
      <3>3. dnsItems[j].status # 0
        BY <3>2 DEF DnsInv, Exclusive
      <3>4. CASE j = k
        <4>1. dnsItems'[j].status = status
          BY <3>4, <1>5, <1>7
        <4>2. QED BY <3>1, <3>2, <3>3, <3>4, <4>1
      <3>5. CASE j # k
        <4>1. dnsItems'[j] = dnsItems[j]
          BY <3>5, <1>7
        <4>2. QED BY <3>2, <3>3, <4>1
      <3>6. QED BY <3>4, <3>5
    <2>4. QED BY <2>1, <2>2, <2>3
  <1>10. Known(c, dnsItems')
    <2>1. c.host \in Hosts /\ c.sinp = NoHost
      BY <1>1, <1>5 DEF Known, Scanning
    <2>2. c.pc \in {"found", "scan", "clear", "done"} /\ (c.pc # "done" => c.i \in Items)
      BY <1>1, <1>3, <1>5, DnsAssumption DEF DnsAssumption, Items, NoItem
    <2>3. c.pc = "found" => dnsItems'[c.i].host = c.host
      <3> SUFFICES ASSUME c.pc = "found" PROVE dnsItems'[c.i].host = c.host
        OBVIOUS
      <3>1. found
        BY <1>5
      <3>2. c.i = k /\ dnsItems[k].host = l.host
        BY <3>1, <1>5 DEF Matches, Item
      <3>3. dnsItems'[k].host = dnsItems[k].host
        BY <1>5, <1>7
      <3>4. QED BY <3>2, <3>3, <1>5
    <2>4. QED BY <2>1, <2>2, <2>3 DEF Known, Scanning, Using
  <1>11. Whole(e)
    BY <1>2, <1>5 DEF Whole
  <1> HIDE DEF c, e
  <1>12. QED BY <1>1, <1>4, <1>6, <1>8, <1>9, <1>10, <1>11, StepInv

(* The answer of a valid item, or the way to a fresh one.                  *)
LEMMA FoundInv ==
  ASSUME DnsInv, NEW t \in Threads, Found(t)
  PROVE  DnsInv'
  <1> DEFINE l == look[t]
             a == [l EXCEPT !.sinp = dnsItems[l.i].addrs, !.pc = "release"]
             b == [l EXCEPT !.pc = "clear"]
  <1>1. l \in Cursor /\ l.pc = "found" /\ l.i \in Items /\ Known(l, dnsItems)
    BY DEF DnsInv, DnsTyped, Found, At, Known, Using
  <1>2. dnsItems[l.i] \in Entry /\ dnsItems[l.i].host = l.host /\ l.host \in Hosts
    BY <1>1 DEF DnsInv, DnsTyped, Known
  <1>3. dnsItems[l.i].addrs = l.host
    BY <1>1, <1>2, DnsAssumption DEF DnsAssumption, DnsInv, Coherent, Whole
  <1>4. a \in Cursor /\ b \in Cursor
    BY <1>1, <1>2 DEF Cursor, Entry, Places
  <1>5. /\ a.pc = "release" /\ a.host = l.host /\ a.i = l.i /\ a.sinp = l.host
        /\ b.pc = "clear" /\ b.host = l.host /\ b.i = l.i /\ b.sinp = l.sinp
    BY <1>1, <1>3 DEF Cursor
  <1>6. \A j \in Items : (Holds(a, j) => Holds(l, j)) /\ (Holds(b, j) => Holds(l, j))
    BY <1>1, <1>5 DEF Holds, Using, Scanning
  <1>7. Known(a, dnsItems) /\ Known(b, dnsItems)
    BY <1>1, <1>2, <1>5 DEF Known, Using, Scanning
  <1>8. (look' = [look EXCEPT ![t] = a] \/ look' = [look EXCEPT ![t] = b]) /\ dnsItems' = dnsItems
    BY <1>1 DEF Found, GoTo, Item, DnsInv, DnsTyped
  <1> HIDE DEF a, b
  <1>9. QED BY <1>4, <1>6, <1>7, <1>8, MoveInv

(* The four steps that write the item a thread uses, and move on.          *)
LEMMA UseInv ==
  ASSUME DnsInv, NEW t \in Threads, Clear(t) \/ Resolve(t) \/ Publish(t) \/ Release(t)
  PROVE  DnsInv'
  <1> DEFINE l == look[t]
             k == l.i
             item == dnsItems[k]
  <1>1. l \in Cursor /\ l.pc \in Using \ {"found"} /\ k \in Items /\ Known(l, dnsItems)
    BY DEF DnsInv, DnsTyped, Clear, Resolve, Publish, Release, At, Known, Using
  <1>2. item \in Entry /\ Whole(item) /\ Holds(l, k) /\ item.status # 0
    BY <1>1 DEF DnsInv, DnsTyped, Coherent, Exclusive, Holds
  <1>3. ASSUME NEW c \in Cursor, NEW e \in Entry, Whole(e),
               look' = [look EXCEPT ![t] = c], dnsItems' = [dnsItems EXCEPT ![k] = e],
               c.i = k, c.host = l.host,
               \/ c.pc \in Using /\ e.status = item.status
               \/ c.pc = "done",
               dnsItems'[k] = e => Known(c, dnsItems')
        PROVE  DnsInv'
    <2>1. dnsItems'[k] = e
      BY <1>1, <1>3 DEF DnsInv, DnsTyped
    <2>2. \A j \in Items : Holds(c, j) =>
            /\ dnsItems'[j].status # 0
            /\ Holds(l, j) \/ dnsItems[j].status = 0
      BY <1>2, <1>3, <2>1 DEF Holds, Using, Scanning
    <2>3. QED BY <1>1, <1>2, <1>3, <2>1, <2>2, StepInv
  <1>4. CASE Clear(t)
    <2> DEFINE c == [l EXCEPT !.pc = "resolve"]
               e == [item EXCEPT !.addrs = NoHost, !.host = NoHost]
    <2>1. l.pc = "clear" /\ c \in Cursor /\ e \in Entry
      BY <1>1, <1>2, <1>4 DEF Clear, At, Cursor, Entry, Places, Names
    <2>2. /\ c.pc = "resolve" /\ c.host = l.host /\ c.i = k /\ c.sinp = l.sinp
          /\ e.host = NoHost /\ e.addrs = NoHost /\ e.status = item.status
      BY <1>1, <1>2 DEF Cursor, Entry
    <2>3. look' = [look EXCEPT ![t] = c] /\ dnsItems' = [dnsItems EXCEPT ![k] = e]
      BY <1>1, <1>2, <1>4 DEF Clear, GoTo, DnsInv, DnsTyped
    <2>4. dnsItems'[k] = e => Known(c, dnsItems')
      BY <1>1, <2>1, <2>2 DEF Known, Using, Scanning
    <2>5. Whole(e) /\ c.pc \in Using
      BY <2>2 DEF Whole, Using
    <2> HIDE DEF c, e
    <2>6. QED BY <1>3, <2>1, <2>2, <2>3, <2>4, <2>5
  <1>5. CASE Resolve(t)
    <2> DEFINE c(sinp) == [l EXCEPT !.sinp = sinp, !.pc = "publish"]
               e(addrs) == [item EXCEPT !.addrs = addrs]
    <2>1. /\ l.pc = "resolve" /\ item.host = NoHost /\ item.addrs = NoHost /\ l.sinp = NoHost
          /\ l.host \in Hosts
      BY <1>1, <1>5 DEF Resolve, At, Known
    <2>2. PICK a \in {l.host, NoHost} :
            look' = [look EXCEPT ![t] = c(a)] /\ dnsItems' = [dnsItems EXCEPT ![k] = e(a)]
      <3>1. c(NoHost) = [l EXCEPT !.pc = "publish"] /\ e(NoHost) = item
        BY <1>1, <1>2, <2>1 DEF Cursor, Entry
      <3>2. CASE look' = [look EXCEPT ![t].sinp = look[t].host, ![t].pc = "publish"]
                 /\ dnsItems' = [dnsItems EXCEPT ![look[t].i].addrs = look[t].host]
        BY <1>1, <1>2, <3>2 DEF DnsInv, DnsTyped
      <3>3. CASE GoTo(t, "publish") /\ dnsItems' = dnsItems
        BY <1>1, <1>2, <3>1, <3>3 DEF GoTo, DnsInv, DnsTyped
      <3>4. QED BY <1>5, <3>2, <3>3 DEF Resolve
    <2>3. c(a) \in Cursor /\ e(a) \in Entry
      BY <1>1, <1>2, <2>1, <2>2 DEF Cursor, Entry, Places, Names
    <2>4. /\ c(a).pc = "publish" /\ c(a).host = l.host /\ c(a).i = k /\ c(a).sinp = a
          /\ e(a).host = NoHost /\ e(a).addrs = a /\ e(a).status = item.status
      BY <1>1, <1>2, <2>1 DEF Cursor, Entry
    <2>5. dnsItems'[k] = e(a) => Known(c(a), dnsItems')
      BY <1>1, <2>1, <2>2, <2>4 DEF Known, Using, Scanning
    <2>6. Whole(e(a)) /\ c(a).pc \in Using
      BY <2>4 DEF Whole, Using
    <2> HIDE DEF c, e
    <2>7. QED BY <1>3, <2>2, <2>3, <2>4, <2>5, <2>6
  <1>6. CASE Publish(t)
    <2> DEFINE c == [l EXCEPT !.pc = "release"]
               e == [item EXCEPT !.host = l.sinp, !.isValid = (l.sinp # NoHost)]
    <2>1. /\ l.pc = "publish" /\ item.addrs = l.sinp /\ l.sinp \in {NoHost, l.host}
          /\ l.host \in Hosts
      BY <1>1, <1>6 DEF Publish, At, Known
    <2>2. (l.sinp # NoHost) \in BOOLEAN /\ l.sinp \in Names
      BY <2>1 DEF Names
    <2>3. c \in Cursor /\ e \in Entry
      BY <1>1, <1>2, <2>2 DEF Cursor, Entry, Places
    <2>4. /\ c.pc = "release" /\ c.host = l.host /\ c.i = k /\ c.sinp = l.sinp
          /\ e.host = l.sinp /\ e.addrs = l.sinp /\ e.status = item.status
      BY <1>1, <1>2, <2>1 DEF Cursor, Entry
    <2>5. look' = [look EXCEPT ![t] = c] /\ dnsItems' = [dnsItems EXCEPT ![k] = e]
      BY <1>1, <1>2, <1>6 DEF Publish, GoTo, DnsInv, DnsTyped
    <2>6. Known(c, dnsItems')
      BY <1>1, <2>1, <2>4 DEF Known, Using, Scanning
    <2>7. Whole(e) /\ c.pc \in Using
      BY <2>4 DEF Whole, Using
    <2> HIDE DEF c, e
    <2>8. QED BY <1>3, <2>3, <2>4, <2>5, <2>6, <2>7
  <1>7. CASE Release(t)
    <2> DEFINE c == [l EXCEPT !.pc = "done"]
               e == [item EXCEPT !.status = 0]
    <2>1. l.pc = "release" /\ l.sinp \in {NoHost, l.host} /\ l.host \in Hosts
      BY <1>1, <1>7 DEF Release, At, Known
    <2>2. c \in Cursor /\ e \in Entry
      BY <1>1, <1>2 DEF Cursor, Entry, Places
    <2>3. /\ c.pc = "done" /\ c.host = l.host /\ c.i = k /\ c.sinp = l.sinp
          /\ e.host = item.host /\ e.addrs = item.addrs
      BY <1>1, <1>2 DEF Cursor, Entry
    <2>4. look' = [look EXCEPT ![t] = c] /\ dnsItems' = [dnsItems EXCEPT ![k] = e]
      BY <1>1, <1>2, <1>7 DEF Release, GoTo, DnsInv, DnsTyped
    <2>5. Known(c, dnsItems')
      BY <2>1, <2>3 DEF Known, Using, Scanning
    <2>6. Whole(e)
      BY <1>2, <2>3 DEF Whole
    <2> HIDE DEF c, e
    <2>7. QED BY <1>3, <2>2, <2>3, <2>4, <2>5, <2>6
  <1>8. QED BY <1>4, <1>5, <1>6, <1>7

LEMMA ForgetInv ==
  ASSUME DnsInv, NEW t \in Threads, Forget(t)
  PROVE  DnsInv'
  <1>1. NotLooking \in Cursor /\ NotLooking.pc = "idle"
    BY DnsAssumption DEF DnsAssumption, NotLooking, Cursor, Places, Names, NoItem
  <1>2. \A j \in Items : ~Holds(NotLooking, j)
    BY <1>1 DEF Holds, Using, Scanning
  <1>3. Known(NotLooking, dnsItems)
    BY <1>1 DEF Known, Using, Scanning
  <1>4. QED BY <1>1, <1>2, <1>3, MoveInv DEF Forget

-----------------------------------------------------------------------------
LEMMA DnsStepInv == DnsInv /\ [DnsNext]_dnsVars => DnsInv'
  <1> SUFFICES ASSUME DnsInv, [DnsNext]_dnsVars PROVE DnsInv'
    OBVIOUS
  <1>1. CASE UNCHANGED dnsVars
    BY <1>1 DEF dnsVars, DnsInv, DnsTyped, Exclusive, Coherent
  <1>2. ASSUME NEW t \in Threads, LookingUp(t) PROVE DnsInv'
    BY <1>2, LookupInv, ReadValidInv, TestInv, FoundInv, UseInv, ForgetInv DEF LookingUp, LookupStep
  <1>3. QED BY <1>1, <1>2 DEF DnsNext

LEMMA DnsInvSafe == DnsInv => AddressOfHost
  <1> SUFFICES ASSUME DnsInv PROVE AddressOfHost
    OBVIOUS
  <1>1. \A t \in Threads : At(t, "done") => look[t].sinp \in {NoHost, look[t].host}
    BY DEF DnsInv, Known, At
  <1>2. \A t, u \in Threads : Uses(t) /\ Uses(u) /\ look[t].i = look[u].i => t = u
    BY DEF DnsInv, Exclusive, Known, Holds, Uses, Using
  <1>3. QED BY <1>1, <1>2 DEF AddressOfHost

(* The cache alone, whatever its threads look up                           *)
(* (get_host_by_name_from_cache): an answer is an address of the host      *)
(* asked for, and no two threads use one item.                             *)
THEOREM CacheSafe == DnsSpec => []AddressOfHost
  <1>1. DnsInit => DnsInv
    BY DnsInitInv
  <1>2. DnsInv /\ [DnsNext]_dnsVars => DnsInv'
    BY DnsStepInv
  <1>3. DnsInv => AddressOfHost
    BY DnsInvSafe
  <1>4. QED BY <1>1, <1>2, <1>3, PTL DEF DnsSpec

(* A request does with the cache what a lookup does, or nothing: the rest  *)
(* of http_trans_connect, http_req_send and http_resp.c has no part in it. *)
THEOREM RequestsLookUp == Spec => DnsSpec
  <1>1. Init => DnsInit
    BY DEF Init
  <1>2. [Next]_vars => [DnsNext]_dnsVars
    <2> SUFFICES ASSUME [Next]_vars PROVE [DnsNext]_dnsVars
      OBVIOUS
    <2>1. CASE UNCHANGED vars
      BY <2>1 DEF vars, dnsVars
    <2>2. CASE CallStep
      <3> USE HttpAssumption DEF HttpAssumption
      <3>1. CASE LookupStep(Caller) \/ Connect \/ LookUpHost(CallHost)
        BY <3>1 DEF Connect, LookUpHost, LookingUp, DnsNext
      <3>2. CASE Sending
        BY <3>2 DEF Sending, Write, WriteInterrupted, WriteFails
      <3>3. CASE Receiving
        BY <3>3 DEF Receiving, Read, ReadSize, ReadEnd, ReadInterrupted, ReadFails
      <3>4. QED BY <2>2, <3>1, <3>2, <3>3 DEF CallStep
    <2>3. CASE Requests
      BY <2>3 DEF Requests, Server, Begin
    <2>4. CASE \E t \in Threads : NamesStep(t)
      BY <2>4 DEF NamesStep, DnsNext
    <2>5. QED BY <2>1, <2>2, <2>3, <2>4 DEF Next
  <1>3. QED BY <1>1, <1>2, PTL DEF Spec, DnsSpec

(* With requests: every one is sent to an address of the host it names, or *)
(* fails (http_trans_connect).                                             *)
THEOREM AddressesSafe == Spec => []AddressOfHost
  BY CacheSafe, RequestsLookUp, PTL

-----------------------------------------------------------------------------
(* A request from its first byte to what the caller is told.               *)

Early == {"idle", "lookup", "line", "headers", "body"}
Reads == {"length", "size", "chunk", "last", "close"}
CallPlaces == Early \cup {"headers_in", "returned"} \cup Reads

Sendable == {"line", "headers", "body"} \X Nat \X Nat
Answerable == {"head", "cr", "lf", "continue", "data", "size"} \X Nat

Calls == [pc : CallPlaces, kind : Kinds \cup {"none"},
          out : Seq(Sendable), part : Nat, offset : Nat,
          buf : Seq(Answerable), left : Nat, last : Int, chunk : Nat, body : Seq(Answerable),
          error : {"none", "host", "again", "other", "intr"}, intr : Nat,
          ret : {"none", "timeout", "fail", "ok", "code"},
          code : {"none", "200", "2xx", "other"}, resp : Seq(Answerable), respLen : Nat]

Lines == [conn : {"none", "up", "pending", "down"}, wire : Seq(Sendable), reply : Seq(Answerable)]

HttpTyped ==
  /\ call \in Calls /\ line \in Lines
  /\ server \in [ans : {NoAnswer} \cup Answers({"200", "2xx", "other"}),
                 interim : BOOLEAN, closed : BOOLEAN]

(* The last unit of the request is not sent before all that is in front of *)
(* it: while anything is left to send, the server has not got it.          *)
LastUnit(kind) ==
  IF kind = "upload" THEN <<"body", Len(Parts), Parts[Len(Parts)]>> ELSE Headers

Lacks(wire, u) == \A i \in 1 .. Len(wire) : wire[i] # u

Unsent(c, wire) ==
  /\ c.pc \in {"lookup", "line", "headers", "body"} => Lacks(wire, LastUnit(c.kind))
  /\ c.pc = "line" => c.out = <<Line>>
  /\ c.pc = "headers" => c.out = <<Headers>>
  /\ c.pc = "body" =>
       /\ c.kind = "upload" /\ c.part \in 1 .. Len(Parts) /\ c.offset < Parts[c.part]
       /\ LET end == MinOf(c.offset + Piece, Parts[c.part]) IN
          \E a \in c.offset .. end - 1 : c.out = Units(c.part, a, end - a)

(* What was read and not taken, with what is still to be read, is a start  *)
(* of what the server sends from here on.                                  *)
Starts(s, t) == Len(s) <= Len(t) /\ \A i \in 1 .. Len(s) : s[i] = t[i]

BodySoFar(c, chunks, j) == c.body = Datas(0, Sums(chunks)[j])

(* m chunks are still to be taken; the first of them has been begun.       *)
BeforeChunk(c, reply, chunks, m) ==
  Starts(c.buf \o reply, ChunksFrom(chunks)[m]) /\ BodySoFar(c, chunks, Len(chunks) - m)
InChunk(c, reply, chunks, m) ==
  /\ c.chunk = chunks[Len(chunks) - m + 1]
  /\ Starts((<<Size(c.chunk)>> \o c.buf) \o reply, ChunksFrom(chunks)[m])
  /\ BodySoFar(c, chunks, Len(chunks) - m)

Comes(c, reply, ans, interim) ==
  LET coming == c.buf \o reply IN
  /\ c.pc \in Early => c.buf = <<>>
  /\ c.pc \in Early \cup {"headers_in"} => c.body = <<>>
  /\ c.pc \in Early \cup {"headers_in"} =>
       IF ans = NoAnswer THEN coming = <<>> \/ (interim /\ coming = <<Cont>>)
       ELSE Starts(coming, Encode(ans)) \/ Starts(coming, <<Cont>> \o Encode(ans))
  /\ c.pc \in Reads => ans # NoAnswer
  /\ c.pc \in {"length", "close"} => ans.framing = c.pc /\ Starts(coming, Body(ans.chunks)) /\ c.body = <<>>
  /\ c.pc = "length" => c.left + Len(c.buf) = Total(ans.chunks) /\ c.left > 0
  /\ c.pc \in {"size", "chunk", "last"} => ans.framing = "chunked"
  /\ c.pc = "size" => \E m \in 0 .. Len(ans.chunks) : BeforeChunk(c, reply, ans.chunks, m)
  /\ c.pc = "chunk" =>
       /\ \E m \in 1 .. Len(ans.chunks) : InChunk(c, reply, ans.chunks, m)
       /\ c.left + Len(c.buf) = c.chunk + 2 /\ c.left > 0
  /\ c.pc = "last" => c.body = Body(ans.chunks)

(* What the caller was told.                                               *)
Told(c, ans) ==
  c.pc = "returned" /\ c.ret = "ok" =>
    /\ c.code = ans.code
    /\ c.kind = "upload" => ans.code = "200"
    /\ c.kind = "simple" => ans.code \in {"200", "2xx"}
    /\ Starts(c.body, Body(ans.chunks))
    /\ ans.framing # "close" => c.body = Body(ans.chunks)
    /\ c.kind = "simple" => Starts(c.resp, c.body) /\ c.respLen = Len(c.body)

(* A server that answers well has the whole request.                       *)
Answered(c, wire, ans) == ans.code \in {"200", "2xx"} => wire = Request(c.kind)

CallInv ==
  /\ HttpTyped
  /\ Unsent(call, line.wire)
  /\ Comes(call, line.reply, server.ans, server.interim)
  /\ Told(call, server.ans)
  /\ Answered(call, line.wire, server.ans)

-----------------------------------------------------------------------------
(* Induction on the natural numbers, on their usual order.                 *)
Below == {ss \in Nat \X Nat : ss[1] < ss[2]}

LEMMA Induction ==
  ASSUME NEW S \in SUBSET Nat, 0 \in S, \A k \in S : k + 1 \in S
  PROVE  S = Nat
  <1> SUFFICES ASSUME Nat \ S # {} PROVE FALSE
    OBVIOUS
  <1>1. IsWellFoundedOn(Below, Nat)
    BY NatLessThanWellFounded DEF OpToRel, Below
  <1>2. \E x \in Nat \ S : \A y \in Nat \ S : <<y, x>> \notin Below
    BY <1>1, WFMin
  <1>3. PICK x \in Nat \ S : \A y \in Nat \ S : ~(y < x)
    BY <1>2 DEF Below
  <1>4. x - 1 \in Nat /\ x - 1 \notin S
    <2>1. x # 0 /\ x \in Nat
      OBVIOUS
    <2>2. x - 1 \in Nat /\ (x - 1) + 1 = x
      BY <2>1
    <2>3. QED
      BY <2>2
  <1>5. x - 1 \in Nat \ S /\ x - 1 < x
    BY <1>4
  <1>6. QED
    BY <1>3, <1>5

-----------------------------------------------------------------------------
(* Sequences that start others: reading moves units from one to the other, *)
(* a cut leaves a start, and what is taken off the front is what was sent. *)

LEMMA Moved ==
  ASSUME NEW S, NEW a \in Seq(S), NEW b \in Seq(S), NEW n \in 0 .. Len(b)
  PROVE  /\ a \o SubSeq(b, 1, n) \in Seq(S) /\ SubSeq(b, n + 1, Len(b)) \in Seq(S)
         /\ (a \o SubSeq(b, 1, n)) \o SubSeq(b, n + 1, Len(b)) = a \o b
  <1> DEFINE x == SubSeq(b, 1, n)
             y == SubSeq(b, n + 1, Len(b))
  <1>1. x \in Seq(S) /\ Len(x) = n /\ \A i \in 1 .. n : x[i] = b[i]
    OBVIOUS
  <1>2. y \in Seq(S) /\ Len(y) = Len(b) - n /\ \A i \in 1 .. Len(b) - n : y[i] = b[n + i]
    OBVIOUS
  <1> HIDE DEF x, y
  <1>a. /\ a \o x \in Seq(S) /\ Len(a \o x) = Len(a) + n
        /\ \A i \in 1 .. Len(a) + n : (a \o x)[i] = IF i <= Len(a) THEN a[i] ELSE x[i - Len(a)]
    BY <1>1, ConcatProperties
  <1>b. /\ a \o b \in Seq(S) /\ Len(a \o b) = Len(a) + Len(b)
        /\ \A i \in 1 .. Len(a) + Len(b) : (a \o b)[i] = IF i <= Len(a) THEN a[i] ELSE b[i - Len(a)]
    BY ConcatProperties
  <1> DEFINE ax == a \o x
             ab == a \o b
             axy == ax \o y
  <1>3. /\ axy \in Seq(S) /\ Len(axy) = Len(ax) + Len(y)
        /\ \A i \in 1 .. Len(ax) + Len(y) : axy[i] = IF i <= Len(ax) THEN ax[i] ELSE y[i - Len(ax)]
    BY <1>a, <1>2, ConcatProperties
  <1>c. Len(a) \in Nat /\ Len(b) \in Nat
    OBVIOUS
  <1> HIDE DEF ax, ab, axy
  <1>4. Len(axy) = Len(ab)
    BY <1>2, <1>3, <1>a, <1>b, <1>c DEF ax, ab
  <1>5. ASSUME NEW i \in 1 .. Len(ab) PROVE axy[i] = ab[i]
    <2>1. i \in 1 .. Len(a) + Len(b) /\ Len(ax) = Len(a) + n
      BY <1>a, <1>b DEF ax, ab
    <2>2. CASE i <= Len(a) + n
      <3>1. axy[i] = ax[i]
        BY <1>2, <1>3, <1>c, <2>1, <2>2
      <3>2. ax[i] = IF i <= Len(a) THEN a[i] ELSE x[i - Len(a)]
        BY <1>a, <1>c, <2>1, <2>2 DEF ax
      <3>3. ab[i] = IF i <= Len(a) THEN a[i] ELSE b[i - Len(a)]
        BY <1>b, <2>1 DEF ab
      <3>4. QED
        BY <1>1, <1>c, <2>1, <2>2, <3>1, <3>2, <3>3
    <2>3. CASE i > Len(a) + n
      <3> DEFINE d == i - Len(ax)
      <3>0. d \in 1 .. Len(b) - n /\ n + d = i - Len(a)
        BY <1>c, <2>1, <2>3
      <3>1. i \in 1 .. Len(ax) + Len(y) /\ ~(i <= Len(ax))
        BY <1>2, <1>c, <2>1, <2>3
      <3>2. axy[i] = y[d]
        BY <1>3, <3>1
      <3> HIDE DEF d
      <3>3. y[d] = b[n + d]
        BY <1>2, <3>0
      <3>4. ab[i] = b[i - Len(a)]
        BY <1>b, <1>c, <2>1, <2>3 DEF ab
      <3>5. QED
        BY <3>0, <3>2, <3>3, <3>4
    <2>4. QED
      BY <1>c, <2>1, <2>2, <2>3
  <1>6. (a \o x) \o y = a \o b
    <2>1. axy = ab
      BY <1>3, <1>4, <1>5, <1>b, SeqEqual DEF ab
    <2>2. QED
      BY <2>1 DEF ax, ab, axy
  <1>7. QED
    BY <1>1, <1>2, <1>a, <1>6 DEF x, y

LEMMA Cut ==
  ASSUME NEW S, NEW a \in Seq(S), NEW b \in Seq(S), NEW t \in Seq(S), Starts(a \o b, t),
         NEW n \in 0 .. Len(b)
  PROVE  Starts(a \o SubSeq(b, 1, n), t)
  <1> DEFINE x == SubSeq(b, 1, n)
  <1>1. x \in Seq(S) /\ Len(x) = n /\ \A i \in 1 .. n : x[i] = b[i]
    OBVIOUS
  <1> HIDE DEF x
  <1> DEFINE ax == a \o x
             ab == a \o b
  <1>a. /\ Len(ax) = Len(a) + n
        /\ \A i \in 1 .. Len(a) + n : ax[i] = IF i <= Len(a) THEN a[i] ELSE x[i - Len(a)]
    BY <1>1, ConcatProperties
  <1>b. /\ Len(ab) = Len(a) + Len(b)
        /\ \A i \in 1 .. Len(a) + Len(b) : ab[i] = IF i <= Len(a) THEN a[i] ELSE b[i - Len(a)]
    BY ConcatProperties
  <1>c. Len(a) \in Nat /\ Len(b) \in Nat
    OBVIOUS
  <1>d. Starts(ab, t)
    OBVIOUS
  <1> HIDE DEF ax, ab
  <1>2. ASSUME NEW i \in 1 .. Len(a) + n PROVE ax[i] = ab[i]
    <2>1. i \in 1 .. Len(a) + Len(b)
      BY <1>c
    <2>2. /\ ax[i] = IF i <= Len(a) THEN a[i] ELSE x[i - Len(a)]
          /\ ab[i] = IF i <= Len(a) THEN a[i] ELSE b[i - Len(a)]
      BY <1>a, <1>b, <2>1
    <2>3. i > Len(a) => i - Len(a) \in 1 .. n
      BY <1>c
    <2>4. QED
      BY <1>1, <1>c, <2>2, <2>3
  <1>3. Starts(ax, t)
    <2>1. Len(ax) <= Len(t)
      BY <1>a, <1>b, <1>c, <1>d DEF Starts
    <2>2. ASSUME NEW i \in 1 .. Len(ax) PROVE ax[i] = t[i]
      <3>1. i \in 1 .. Len(ab) /\ i \in 1 .. Len(a) + n
        BY <1>a, <1>b, <1>c
      <3>2. QED
        BY <1>2, <1>d, <3>1 DEF Starts
    <2>3. QED
      BY <2>1, <2>2 DEF Starts
  <1>4. QED
    BY <1>3 DEF ax, x

LEMMA Dropped ==
  ASSUME NEW S, NEW a \in Seq(S), NEW b \in Seq(S), NEW p \in Seq(S), NEW r \in Seq(S),
         Starts(a \o b, p \o r), Len(p) <= Len(a)
  PROVE  /\ Starts(SubSeq(a, Len(p) + 1, Len(a)) \o b, r)
         /\ \A i \in 1 .. Len(p) : a[i] = p[i]
  <1> DEFINE k == Len(p)
             x == SubSeq(a, k + 1, Len(a))
  <1>1. x \in Seq(S) /\ Len(x) = Len(a) - k /\ \A i \in 1 .. Len(a) - k : x[i] = a[k + i]
    OBVIOUS
  <1>2. k \in Nat /\ Len(a) \in Nat /\ Len(b) \in Nat /\ Len(r) \in Nat /\ k <= Len(a)
    OBVIOUS
  <1> DEFINE ab == a \o b
             pr == p \o r
             xb == x \o b
  <1>a. /\ Len(ab) = Len(a) + Len(b)
        /\ \A i \in 1 .. Len(a) + Len(b) : ab[i] = IF i <= Len(a) THEN a[i] ELSE b[i - Len(a)]
    BY ConcatProperties
  <1>b. /\ Len(pr) = k + Len(r)
        /\ \A i \in 1 .. k + Len(r) : pr[i] = IF i <= k THEN p[i] ELSE r[i - k]
    BY ConcatProperties
  <1>c. /\ Len(xb) = Len(x) + Len(b)
        /\ \A i \in 1 .. Len(x) + Len(b) : xb[i] = IF i <= Len(x) THEN x[i] ELSE b[i - Len(x)]
    BY <1>1, ConcatProperties
  <1>d. Starts(ab, pr)
    OBVIOUS
  <1> HIDE DEF x, k, ab, pr, xb
  <1>3. \A i \in 1 .. Len(a) + Len(b) : ab[i] = pr[i] /\ i \in 1 .. k + Len(r)
    BY <1>2, <1>a, <1>b, <1>d DEF Starts
  <1>4. ASSUME NEW i \in 1 .. k PROVE a[i] = p[i]
    <2>1. i \in 1 .. Len(a) + Len(b) /\ i <= Len(a)
      BY <1>2
    <2>2. ab[i] = a[i] /\ pr[i] = p[i] /\ ab[i] = pr[i]
      BY <1>2, <1>3, <1>a, <1>b, <2>1
    <2>3. QED
      BY <2>2
  <1>5. Len(xb) = Len(a) + Len(b) - k /\ Len(xb) <= Len(r)
    BY <1>1, <1>2, <1>a, <1>b, <1>c, <1>d DEF Starts
  <1>6. ASSUME NEW i \in 1 .. Len(xb) PROVE xb[i] = r[i]
    <2>1. k + i \in 1 .. Len(a) + Len(b) /\ k + i > k /\ (k + i) - k = i
      BY <1>2, <1>5
    <2>2. pr[k + i] = r[i] /\ ab[k + i] = pr[k + i]
      BY <1>2, <1>3, <1>b, <2>1
    <2>3. CASE i <= Len(a) - k
      <3>1. xb[i] = x[i] /\ x[i] = a[k + i]
        BY <1>1, <1>2, <1>5, <1>c, <2>3
      <3>2. ab[k + i] = a[k + i]
        BY <1>2, <1>a, <2>1, <2>3
      <3>3. QED
        BY <2>2, <3>1, <3>2
    <2>4. CASE i > Len(a) - k
      <3>1. xb[i] = b[i - (Len(a) - k)]
        BY <1>1, <1>2, <1>5, <1>c, <2>4
      <3>2. ab[k + i] = b[(k + i) - Len(a)] /\ (k + i) - Len(a) = i - (Len(a) - k)
        BY <1>2, <1>a, <2>1, <2>4
      <3>3. QED
        BY <2>2, <3>1, <3>2
    <2>5. QED
      BY <1>2, <1>5, <2>3, <2>4
  <1>7. Starts(xb, r)
    BY <1>5, <1>6 DEF Starts
  <1>8. QED
    BY <1>4, <1>7 DEF xb, x, k

LEMMA StartsPrefix ==
  ASSUME NEW S, NEW s \in Seq(S), NEW t \in Seq(S), Starts(s, t)
  PROVE  IsPrefix(s, t)
  <1>1. Len(s) <= Len(t) /\ \A i \in 1 .. Len(s) : s[i] = t[i]
    BY DEF Starts
  <1>2. SubSeq(s, 1, Len(s)) = SubSeq(t, 1, Len(s))
    <2>1. /\ SubSeq(s, 1, Len(s)) \in Seq(S) /\ SubSeq(t, 1, Len(s)) \in Seq(S)
          /\ Len(SubSeq(s, 1, Len(s))) = Len(s) /\ Len(SubSeq(t, 1, Len(s))) = Len(s)
          /\ \A i \in 1 .. Len(s) : /\ SubSeq(s, 1, Len(s))[i] = s[i]
                                    /\ SubSeq(t, 1, Len(s))[i] = t[i]
      BY <1>1
    <2>2. QED
      BY <1>1, <2>1, SeqEqual
  <1>3. QED
    BY <1>1, <1>2 DEF IsPrefix

LEMMA StartsLong ==
  ASSUME NEW S, NEW s \in Seq(S), NEW t \in Seq(S), Starts(s, t), Len(s) >= Len(t)
  PROVE  s = t
  <1>1. Len(s) = Len(t) /\ \A i \in 1 .. Len(s) : s[i] = t[i]
    BY DEF Starts
  <1>2. QED
    BY <1>1, SeqEqual

-----------------------------------------------------------------------------
(* The recursive functions of HttpClient are what their definitions say.   *)

SumsTo(s, n, g) == g = [j \in 0 .. n |-> IF j = 0 THEN 0 ELSE g[j-1] + s[j]]

LEMMA SumsExist ==
  ASSUME NEW s, NEW n \in Nat
  PROVE  \E g : SumsTo(s, n, g)
  <1> DEFINE S == {k \in Nat : \E g : SumsTo(s, k, g)}
  <1>1. 0 \in S
    <2> DEFINE g == [j \in 0 .. 0 |-> 0]
    <2>1. SumsTo(s, 0, g)
      BY DEF SumsTo
    <2>2. QED
      BY <2>1
  <1>2. ASSUME NEW k \in S PROVE k + 1 \in S
    <2>1. PICK g : SumsTo(s, k, g)
      OBVIOUS
    <2> DEFINE h == [j \in 0 .. k + 1 |-> IF j = 0 THEN 0 ELSE g[j-1] + s[j]]
    <2>2. /\ h = [j \in 0 .. k + 1 |-> IF j = 0 THEN 0 ELSE g[j-1] + s[j]]
          /\ g = [j \in 0 .. k |-> IF j = 0 THEN 0 ELSE g[j-1] + s[j]]
          /\ k \in Nat
      BY <2>1 DEF SumsTo
    <2> HIDE DEF h
    <2>3. \A j \in 0 .. k : h[j] = g[j]
      BY <2>2
    <2>4. \A j \in 0 .. k + 1 : j # 0 => h[j-1] = g[j-1]
      BY <2>2, <2>3
    <2>5. h = [j \in 0 .. k + 1 |-> IF j = 0 THEN 0 ELSE h[j-1] + s[j]]
      BY <2>2, <2>4
    <2>6. SumsTo(s, k + 1, h) /\ k + 1 \in Nat
      BY <2>2, <2>5 DEF SumsTo
    <2>7. QED
      BY <2>6
  <1> HIDE DEF S
  <1>3. S = Nat
    BY <1>1, <1>2, Induction DEF S
  <1>4. QED
    BY <1>3 DEF S

LEMMA SumsAre ==
  ASSUME NEW s \in Seq(Nat \ {0})
  PROVE  /\ Sums(s)[0] = 0
         /\ \A j \in 1 .. Len(s) : Sums(s)[j] = Sums(s)[j-1] + s[j]
         /\ \A j \in 0 .. Len(s) : Sums(s)[j] \in Nat
  <1> DEFINE n == Len(s)
             u == CHOOSE g : SumsTo(s, n, g)
  <1>0. n \in Nat
    OBVIOUS
  <1>1. SumsTo(s, n, u)
    BY <1>0, SumsExist
  <1>2. Sums(s) = u
    BY DEF Sums, SumsTo
  <1> HIDE DEF u
  <1>3. u[0] = 0 /\ \A j \in 1 .. n : u[j] = u[j-1] + s[j]
    BY <1>0, <1>1 DEF SumsTo
  <1> DEFINE S == {k \in Nat : k <= n => u[k] \in Nat}
  <1>4. 0 \in S
    BY <1>3
  <1>5. ASSUME NEW k \in S PROVE k + 1 \in S
    <2> SUFFICES ASSUME k + 1 <= n PROVE u[k + 1] \in Nat
      OBVIOUS
    <2>1. k + 1 \in 1 .. n /\ k <= n /\ (k + 1) - 1 = k /\ s[k + 1] \in Nat
      OBVIOUS
    <2>2. u[k] \in Nat
      BY <2>1
    <2>3. QED
      BY <1>3, <2>1, <2>2
  <1> HIDE DEF S
  <1>6. S = Nat
    BY <1>4, <1>5, Induction DEF S
  <1>7. \A j \in 0 .. n : u[j] \in Nat
    BY <1>6 DEF S
  <1>8. QED
    BY <1>2, <1>3, <1>7

LEMMA UnitsTyped ==
  ASSUME NEW n \in Nat, NEW o \in Nat
  PROVE  /\ Datas(o, n) \in Seq(Answerable) /\ Len(Datas(o, n)) = n
         /\ \A k \in 1 .. n : Datas(o, n)[k] = Data(o + k)
         /\ \A p \in Nat : /\ Units(p, o, n) \in Seq(Sendable) /\ Len(Units(p, o, n)) = n
                           /\ \A k \in 1 .. n : Units(p, o, n)[k] = <<"body", p, o + k>>
  <1>1. \A k \in 1 .. n : Data(o + k) \in Answerable
    BY DEF Data, Answerable
  <1>2. \A p \in Nat, k \in 1 .. n : <<"body", p, o + k>> \in Sendable
    BY DEF Sendable
  <1>3. QED
    BY <1>1, <1>2, IsASeq DEF Datas, Units

LEMMA UnitsAre ==
  ASSUME NEW p \in Nat, NEW o \in Nat, NEW n \in Nat
  PROVE  /\ Units(p, o, n) \in Seq(Sendable) /\ Len(Units(p, o, n)) = n
         /\ \A k \in 1 .. n : Units(p, o, n)[k] = <<"body", p, o + k>>
  BY UnitsTyped

LEMMA TokensTyped ==
  /\ Cont \in Answerable /\ Head1 \in Answerable /\ Head2 \in Answerable
  /\ Cr \in Answerable /\ Lf \in Answerable
  /\ \A n \in Nat : Size(n) \in Answerable /\ Size(n)[2] = n
  /\ Cont # Head1 /\ Cont # Head2 /\ Head1 # Head2
  /\ Line \in Sendable /\ Headers \in Sendable /\ Line # Headers
  /\ \A p, k \in Nat : Line # <<"body", p, k>> /\ Headers # <<"body", p, k>>
  BY DEF Cont, Head1, Head2, Cr, Lf, Size, Line, Headers, Answerable, Sendable

LEMMA OneChunkIs ==
  ASSUME NEW cs \in Seq(Nat \ {0}), NEW j \in 0 .. Len(cs) - 1
  PROVE  LET p == OneChunk(cs, j)
             n == cs[j+1] IN
           /\ p \in Seq(Answerable) /\ Len(p) = n + 3 /\ n \in Nat \ {0}
           /\ p[1] = Size(n)
           /\ \A k \in 1 .. n : p[k + 1] = Data(Sums(cs)[j] + k)
  <1> DEFINE n == cs[j+1]
             s == Sums(cs)[j]
             d == Datas(s, n)
             ds == <<Size(n)>> \o d
             crlf == <<Cr, Lf>>
  <1>1. n \in Nat \ {0} /\ s \in Nat
    BY SumsAre
  <1>2. d \in Seq(Answerable) /\ Len(d) = n /\ \A k \in 1 .. n : d[k] = Data(s + k)
    BY <1>1, UnitsTyped
  <1>3. /\ <<Size(n)>> \in Seq(Answerable) /\ Len(<<Size(n)>>) = 1 /\ <<Size(n)>>[1] = Size(n)
        /\ crlf \in Seq(Answerable) /\ Len(crlf) = 2
    BY <1>1, TokensTyped
  <1>4. /\ ds \in Seq(Answerable) /\ Len(ds) = n + 1
        /\ \A i \in 1 .. n + 1 : ds[i] = IF i <= 1 THEN <<Size(n)>>[i] ELSE d[i - 1]
    BY <1>1, <1>2, <1>3, ConcatProperties
  <1> DEFINE p == ds \o crlf
  <1> HIDE DEF ds, crlf
  <1>5. /\ p \in Seq(Answerable) /\ Len(p) = n + 3
        /\ \A i \in 1 .. n + 3 : i <= n + 1 => p[i] = ds[i]
    <2>1. /\ p \in Seq(Answerable) /\ Len(p) = Len(ds) + Len(crlf)
          /\ \A i \in 1 .. Len(ds) + Len(crlf) : p[i] = IF i <= Len(ds) THEN ds[i] ELSE crlf[i - Len(ds)]
      BY <1>3, <1>4, ConcatProperties
    <2> HIDE DEF p
    <2>2. Len(ds) = n + 1 /\ Len(crlf) = 2
      BY <1>3, <1>4
    <2>3. QED
      BY SMTT(60), <1>1, <2>1, <2>2
  <1>6. OneChunk(cs, j) = p
    <2>1. OneChunk(cs, j) = (<<Size(n)>> \o d) \o crlf
      BY <1>2, <1>3, ConcatAssociative DEF OneChunk, crlf
    <2>2. QED
      BY <2>1 DEF ds
  <1> HIDE DEF n, s, d, p
  <1>7. p[1] = Size(n)
    <2>1. 1 \in 1 .. n + 1 /\ 1 \in 1 .. n + 3 /\ 1 <= n + 1
      BY <1>1
    <2>2. ds[1] = <<Size(n)>>[1] /\ p[1] = ds[1]
      BY <1>4, <1>5, <2>1
    <2>3. QED
      BY <1>3, <2>2
  <1>8. ASSUME NEW k \in 1 .. n PROVE p[k + 1] = Data(s + k)
    <2>1. k + 1 \in 1 .. n + 1 /\ k + 1 \in 1 .. n + 3 /\ ~(k + 1 <= 1) /\ (k + 1) - 1 = k
      BY <1>1
    <2>2. QED
      BY <1>2, <1>4, <1>5, <2>1
  <1>9. QED
    BY <1>1, <1>5, <1>6, <1>7, <1>8 DEF n, s

ChunksTo(cs, n, g) ==
  g = [m \in 0 .. n |-> IF m = 0 THEN <<Size(0), Cr, Lf>> ELSE OneChunk(cs, Len(cs) - m) \o g[m-1]]

LEMMA ChunksExist ==
  ASSUME NEW cs, NEW n \in Nat
  PROVE  \E g : ChunksTo(cs, n, g)
  <1> DEFINE S == {k \in Nat : \E g : ChunksTo(cs, k, g)}
             Next1(g, m) == IF m = 0 THEN <<Size(0), Cr, Lf>> ELSE OneChunk(cs, Len(cs) - m) \o g[m-1]
  <1>1. 0 \in S
    <2> DEFINE g == [m \in 0 .. 0 |-> <<Size(0), Cr, Lf>>]
    <2>1. ChunksTo(cs, 0, g)
      BY DEF ChunksTo
    <2>2. QED
      BY <2>1
  <1>2. ASSUME NEW k \in S PROVE k + 1 \in S
    <2>1. PICK g : ChunksTo(cs, k, g)
      OBVIOUS
    <2> DEFINE h == [m \in 0 .. k + 1 |-> Next1(g, m)]
    <2>2. h = [m \in 0 .. k + 1 |-> Next1(g, m)] /\ g = [m \in 0 .. k |-> Next1(g, m)] /\ k \in Nat
      BY <2>1 DEF ChunksTo
    <2> HIDE DEF h
    <2>3. \A m \in 0 .. k : h[m] = g[m]
      <3> HIDE DEF Next1
      <3>1. QED
        BY <2>2
    <2>4. \A m \in 0 .. k + 1 : m # 0 => h[m-1] = g[m-1]
      <3> HIDE DEF Next1
      <3>1. QED
        BY <2>2, <2>3
    <2>5. \A m \in 0 .. k + 1 : Next1(h, m) = Next1(g, m)
      BY <2>4
    <2>6. h = [m \in 0 .. k + 1 |-> Next1(h, m)]
      <3> HIDE DEF Next1
      <3>1. QED
        BY <2>2, <2>5
    <2>7. ChunksTo(cs, k + 1, h)
      BY <2>6 DEF ChunksTo
    <2>8. k + 1 \in Nat
      BY <2>2
    <2>9. QED
      BY <2>7, <2>8
  <1> HIDE DEF S
  <1>3. S = Nat
    BY <1>1, <1>2, Induction DEF S
  <1>4. QED
    BY <1>3 DEF S

LEMMA ChunksAre ==
  ASSUME NEW cs \in Seq(Nat \ {0})
  PROVE  /\ ChunksFrom(cs)[0] = <<Size(0), Cr, Lf>>
         /\ \A m \in 1 .. Len(cs) : ChunksFrom(cs)[m] = OneChunk(cs, Len(cs) - m) \o ChunksFrom(cs)[m-1]
         /\ \A m \in 0 .. Len(cs) : ChunksFrom(cs)[m] \in Seq(Answerable)
  <1> DEFINE n == Len(cs)
             u == CHOOSE g : ChunksTo(cs, n, g)
  <1>0. n \in Nat
    OBVIOUS
  <1>1. ChunksTo(cs, n, u)
    BY <1>0, ChunksExist
  <1>2. ChunksFrom(cs) = u
    BY DEF ChunksFrom, ChunksTo
  <1> HIDE DEF u
  <1>3. /\ u[0] = <<Size(0), Cr, Lf>>
        /\ \A m \in 1 .. n : u[m] = OneChunk(cs, n - m) \o u[m-1]
    BY <1>0, <1>1 DEF ChunksTo
  <1> DEFINE S == {k \in Nat : k <= n => u[k] \in Seq(Answerable)}
  <1>4. 0 \in S
    <2>1. Size(0) \in Answerable /\ Cr \in Answerable /\ Lf \in Answerable
      BY TokensTyped
    <2>2. <<Size(0), Cr, Lf>> \in Seq(Answerable)
      BY <2>1
    <2>3. QED
      BY <1>3, <2>2
  <1>5. ASSUME NEW k \in S PROVE k + 1 \in S
    <2> SUFFICES ASSUME k + 1 <= n PROVE u[k + 1] \in Seq(Answerable)
      OBVIOUS
    <2>1. k + 1 \in 1 .. n /\ k <= n /\ (k + 1) - 1 = k /\ n - (k + 1) \in 0 .. n - 1
      BY <1>0
    <2>2. u[k] \in Seq(Answerable) /\ OneChunk(cs, n - (k + 1)) \in Seq(Answerable)
      BY <2>1, OneChunkIs
    <2>3. u[k + 1] = OneChunk(cs, n - (k + 1)) \o u[k]
      BY <1>3, <2>1
    <2>4. QED
      BY <2>2, <2>3, ConcatProperties
  <1> HIDE DEF S
  <1>6. S = Nat
    BY <1>4, <1>5, Induction DEF S
  <1>7. \A m \in 0 .. n : u[m] \in Seq(Answerable)
    BY <1>6 DEF S
  <1>8. QED
    BY <1>2, <1>3, <1>7

(* The answer as it is sent.                                               *)
Follows(ans) == IF ans.framing = "chunked" THEN Chunked(ans.chunks) ELSE Body(ans.chunks)

LEMMA AnswerIs ==
  ASSUME NEW codes, NEW ans \in Answers(codes)
  PROVE  /\ ans.chunks \in Seq(Nat \ {0}) /\ Total(ans.chunks) \in Nat
         /\ Body(ans.chunks) \in Seq(Answerable) /\ Len(Body(ans.chunks)) = Total(ans.chunks)
         /\ Follows(ans) \in Seq(Answerable)
         /\ Encode(ans) = <<Head1, Head2>> \o Follows(ans) /\ Encode(ans) \in Seq(Answerable)
         /\ <<Head1, Head2>> \in Seq(Answerable)
         /\ Len(Encode(ans)) >= 2 /\ Encode(ans)[1] = Head1 /\ Encode(ans)[2] = Head2
         /\ <<Cont>> \o Encode(ans) \in Seq(Answerable)
         /\ (<<Cont>> \o Encode(ans))[1] = Cont
  <1>1. ans.chunks \in Seq(Nat \ {0}) /\ Len(ans.chunks) \in Nat
    BY HttpAssumption DEF HttpAssumption, Answers
  <1>2. Total(ans.chunks) \in Nat
    BY <1>1, SumsAre DEF Total
  <1>3. Body(ans.chunks) \in Seq(Answerable) /\ Len(Body(ans.chunks)) = Total(ans.chunks)
    BY <1>2, UnitsTyped DEF Body
  <1>4. Chunked(ans.chunks) \in Seq(Answerable)
    <2>1. Len(ans.chunks) \in 0 .. Len(ans.chunks)
      BY <1>1
    <2>2. QED
      BY <1>1, <2>1, ChunksAre DEF Chunked
  <1>5. Follows(ans) \in Seq(Answerable)
    BY <1>3, <1>4 DEF Follows
  <1> DEFINE f == Follows(ans)
             e == <<Head1, Head2>> \o f
  <1>6. Encode(ans) = e
    BY DEF Encode, Follows
  <1>7. <<Head1, Head2>> \in Seq(Answerable) /\ Len(<<Head1, Head2>>) = 2
    BY TokensTyped
  <1> HIDE DEF f
  <1>8. /\ e \in Seq(Answerable) /\ Len(e) = 2 + Len(f) /\ Len(f) \in Nat
        /\ \A i \in 1 .. 2 + Len(f) : e[i] = IF i <= 2 THEN <<Head1, Head2>>[i] ELSE f[i - 2]
    BY <1>5, <1>7, ConcatProperties DEF f
  <1>9. Len(e) >= 2 /\ e[1] = Head1 /\ e[2] = Head2
    BY <1>8
  <1> HIDE DEF e
  <1>10. <<Cont>> \in Seq(Answerable) /\ Len(<<Cont>>) = 1
    BY TokensTyped
  <1>11. /\ <<Cont>> \o e \in Seq(Answerable)
         /\ \A i \in 1 .. 1 + Len(e) : (<<Cont>> \o e)[i] = IF i <= 1 THEN <<Cont>>[i] ELSE e[i - 1]
    BY <1>8, <1>10, ConcatProperties
  <1>12. (<<Cont>> \o e)[1] = Cont
    BY <1>8, <1>11
  <1>13. QED
    BY <1>1, <1>2, <1>3, <1>5, <1>6, <1>7, <1>8, <1>9, <1>11, <1>12 DEF e, f

-----------------------------------------------------------------------------
(* Reading an answer.  A handler makes of the call c, with what is left to *)
(* read, the call r.                                                       *)
Codes == {"200", "2xx", "other"}

Handled(r, c, reply) ==
  /\ r \in Calls /\ r.kind = c.kind /\ r.pc \notin Early
  /\ Comes(r, reply, server.ans, server.interim)
  /\ Told(r, server.ans)

LEMMA FailedHandled ==
  ASSUME NEW c \in Calls, NEW reply
  PROVE  Handled(Failed(c), c, reply)
  <1> DEFINE r == Failed(c)
  <1>1. r \in Calls /\ r.kind = c.kind /\ r.pc = "returned" /\ r.ret \in {"timeout", "fail"}
    BY DEF Failed, Calls, CallPlaces
  <1> HIDE DEF r
  <1>2. r.pc \notin Early /\ Comes(r, reply, server.ans, server.interim)
    BY <1>1 DEF Comes, Early, Reads
  <1>3. Told(r, server.ans)
    BY <1>1 DEF Told
  <1>4. QED
    BY <1>1, <1>2, <1>3 DEF Handled, r

LEMMA ReturnedHandled ==
  ASSUME NEW c \in Calls, NEW reply, server.ans \in Answers(Codes),
         Starts(c.body, Body(server.ans.chunks)),
         server.ans.framing # "close" => c.body = Body(server.ans.chunks)
  PROVE  Handled(Returned(c), c, reply)
  <1> DEFINE code == server.ans.code
             good == c.kind = "move" \/ code = "200" \/ (c.kind = "simple" /\ code = "2xx")
             n == MinOf(Len(c.body), BufLen)
             r == Returned(c)
  <1>1. code \in Codes /\ c.body \in Seq(Answerable) /\ Len(c.body) \in Nat
    BY DEF Answers, Calls
  <1>2. n \in 0 .. Len(c.body)
    BY <1>1, HttpAssumption DEF HttpAssumption, MinOf
  <1>3. /\ SubSeq(c.body, 1, n) \in Seq(Answerable) /\ Len(SubSeq(c.body, 1, n)) = n
        /\ \A i \in 1 .. n : SubSeq(c.body, 1, n)[i] = c.body[i]
    BY <1>1, <1>2
  <1>4. <<>> \in Seq(Answerable)
    OBVIOUS
  <1>5. /\ r.pc = "returned" /\ r.code = code /\ r.ret = (IF good THEN "ok" ELSE "code")
        /\ r.resp = (IF good /\ c.kind = "simple" THEN SubSeq(c.body, 1, n) ELSE <<>>)
        /\ r.respLen = (IF good /\ c.kind = "simple" THEN Len(c.body) ELSE 0)
        /\ r.kind = c.kind /\ r.body = c.body
    BY DEF Returned, Calls
  <1>6. r \in Calls
    <2>1. r = [c EXCEPT !.pc = "returned", !.code = r.code, !.ret = r.ret,
                        !.resp = r.resp, !.respLen = r.respLen]
      BY DEF Returned, Calls
    <2>2. r.code \in {"none", "200", "2xx", "other"} /\ r.ret \in {"none", "timeout", "fail", "ok", "code"}
      BY <1>1, <1>5 DEF Codes
    <2>3. r.resp \in Seq(Answerable) /\ r.respLen \in Nat
      BY <1>1, <1>3, <1>4, <1>5
    <2> HIDE DEF r
    <2>4. QED
      BY <2>1, <2>2, <2>3 DEF Calls, CallPlaces
  <1> HIDE DEF r
  <1>7. r.pc \notin Early /\ Comes(r, reply, server.ans, server.interim)
    BY <1>5 DEF Comes, Early, Reads
  <1>8. ASSUME r.ret = "ok" PROVE Told(r, server.ans)
    <2>1. good
      BY <1>5, <1>8
    <2>2. c.kind = "upload" => code = "200"
      BY <2>1
    <2>3. c.kind = "simple" => code \in {"200", "2xx"}
      BY <2>1
    <2>4. c.kind = "simple" => Starts(r.resp, r.body) /\ r.respLen = Len(r.body)
      BY <1>2, <1>3, <1>5, <2>1 DEF Starts
    <2>5. QED
      BY <1>5, <2>2, <2>3, <2>4 DEF Told
  <1>9. Told(r, server.ans)
    BY <1>8 DEF Told
  <1>10. QED
    BY <1>5, <1>6, <1>7, <1>9 DEF Handled, r

LEMMA FlushedIs ==
  ASSUME NEW c \in Calls
  PROVE  /\ Flushed(c) \in Calls /\ Flushed(c).kind = c.kind
         /\ Flushed(c).body = c.buf
  <1>1. <<>> \in Seq(Answerable) /\ c.buf \in Seq(Answerable)
    BY DEF Calls
  <1>2. QED
    BY <1>1 DEF Flushed, Calls

LEMMA StartsLeft ==
  ASSUME NEW S, NEW a \in Seq(S), NEW b \in Seq(S), NEW t \in Seq(S), Starts(a \o b, t)
  PROVE  Starts(a, t)
  <1>1. 0 \in 0 .. Len(b)
    OBVIOUS
  <1>2. Starts(a \o SubSeq(b, 1, 0), t)
    BY <1>1, Cut
  <1>3. SubSeq(b, 1, 0) = <<>> /\ a \o <<>> = a
    BY SubSeqEmpty, ConcatEmptySeq
  <1>4. QED
    BY <1>2, <1>3

(* read_body_content_length, and the bodies that are not chunked.          *)
LEMMA BufferIsBody ==
  ASSUME NEW c \in Calls, NEW reply \in Seq(Answerable), server.ans \in Answers(Codes),
         Starts(c.buf \o reply, Body(server.ans.chunks)),
         server.ans.framing # "close" => Len(c.buf) >= Total(server.ans.chunks)
  PROVE  Handled(Returned(Flushed(c)), c, reply)
  <1> DEFINE f == Flushed(c)
             b == Body(server.ans.chunks)
  <1>1. f \in Calls /\ f.kind = c.kind /\ f.body = c.buf
    BY FlushedIs
  <1>2. c.buf \in Seq(Answerable) /\ b \in Seq(Answerable) /\ Len(b) = Total(server.ans.chunks)
    BY AnswerIs DEF Calls
  <1> HIDE DEF f
  <1>3. Starts(f.body, b)
    BY <1>1, <1>2, StartsLeft
  <1>4. server.ans.framing # "close" => f.body = b
    BY <1>1, <1>2, <1>3, StartsLong
  <1>5. Handled(Returned(f), f, reply)
    BY <1>1, <1>3, <1>4, ReturnedHandled
  <1>6. QED
    BY <1>1, <1>5 DEF Handled, f

LEMMA EmptyBody ==
  Body(<<>>) = <<>> /\ Total(<<>>) = 0 /\ \A cs \in Seq(Nat \ {0}) : Datas(0, Sums(cs)[0]) = <<>>
  <1>1. <<>> \in Seq(Nat \ {0}) /\ Len(<<>>) = 0
    OBVIOUS
  <1>2. \A cs \in Seq(Nat \ {0}) : Sums(cs)[0] = 0
    BY SumsAre
  <1>3. Total(<<>>) = 0
    BY <1>1, <1>2 DEF Total
  <1>4. Datas(0, 0) = <<>>
    <2>1. Datas(0, 0) \in Seq(Answerable) /\ Len(Datas(0, 0)) = 0
      BY UnitsTyped
    <2>2. QED
      BY <2>1, EmptySeq
  <1>5. QED
    BY <1>2, <1>3, <1>4 DEF Body

LEMMA LengthHandled ==
  ASSUME NEW c \in Calls, NEW reply \in Seq(Answerable), server.ans \in Answers(Codes),
         server.ans.framing = "length", c.body = <<>>,
         Starts(c.buf \o reply, Body(server.ans.chunks))
  PROVE  Handled(BodyOfLength(c), c, reply)
  <1> DEFINE cs == server.ans.chunks
             left == Total(cs) - Len(c.buf)
  <1>1. Total(cs) \in Nat /\ Len(c.buf) \in Nat /\ Body(cs) \in Seq(Answerable)
    BY AnswerIs DEF Calls
  <1>2. CASE cs = <<>>
    <2>1. c.body = Body(cs)
      BY <1>2, EmptyBody
    <2>2. Starts(c.body, Body(cs))
      BY <1>1, <2>1 DEF Starts
    <2>3. Handled(Returned(c), c, reply)
      BY <2>1, <2>2, ReturnedHandled
    <2>4. QED
      BY <1>2, <2>3 DEF BodyOfLength
  <1>3. CASE cs # <<>> /\ left > 0
    <2> DEFINE r == [c EXCEPT !.pc = "length", !.left = left]
    <2>1. left \in Nat
      BY <1>1, <1>3
    <2>2. /\ r \in Calls /\ r.pc = "length" /\ r.left = left /\ r.kind = c.kind
          /\ r.buf = c.buf /\ r.body = c.body
      <3> HIDE DEF left
      <3>1. QED
        BY <2>1 DEF Calls, CallPlaces, Reads
    <2>3. BodyOfLength(c) = r
      BY <1>3 DEF BodyOfLength
    <2>4. server.ans # NoAnswer
      BY DEF Answers, NoAnswer, Codes
    <2> HIDE DEF r
    <2>5. r.left + Len(r.buf) = Total(cs) /\ r.left > 0
      BY <1>1, <1>3, <2>2
    <2>6. Comes(r, reply, server.ans, server.interim) /\ r.pc \notin Early /\ Told(r, server.ans)
      BY <2>2, <2>4, <2>5 DEF Comes, Told, Early, Reads
    <2>7. QED
      BY <2>2, <2>3, <2>6 DEF Handled
  <1>4. CASE cs # <<>> /\ ~(left > 0)
    <2>1. Len(c.buf) >= Total(cs)
      BY <1>1, <1>4
    <2>2. Handled(Returned(Flushed(c)), c, reply)
      BY <2>1, BufferIsBody
    <2>3. BodyOfLength(c) = Returned(Flushed(c))
      BY <1>4 DEF BodyOfLength
    <2>4. QED
      BY <2>2, <2>3
  <1>5. QED
    BY <1>2, <1>3, <1>4

-----------------------------------------------------------------------------
(* read_chunk and read_body_chunked.                                       *)
Chunky == server.ans \in Answers(Codes) /\ server.ans.framing = "chunked"

LEMMA ChunkyIs ==
  ASSUME Chunky
  PROVE  /\ server.ans.chunks \in Seq(Nat \ {0}) /\ Len(server.ans.chunks) \in Nat
         /\ server.ans # NoAnswer /\ server.ans.framing = "chunked" /\ server.ans \in Answers(Codes)
  <1>1. server.ans \in Answers(Codes) /\ server.ans.framing = "chunked"
    BY DEF Chunky
  <1>2. server.ans # NoAnswer
    BY <1>1 DEF Answers, NoAnswer, Codes
  <1>3. server.ans.chunks \in Seq(Nat \ {0})
    BY <1>1, AnswerIs
  <1>4. QED
    BY <1>1, <1>2, <1>3

(* The data of a chunk continues what came before, and the buffer is left  *)
(* at what follows the chunk.                                              *)
ChunkOf(p, n, u) == Len(p) = n + 3 /\ \A k \in 1 .. n : p[k + 1] = Data(u + k)
DataOf(y, n, u) == Len(y) = n /\ \A i \in 1 .. n : y[i] = Data(u + i)

LEMMA DatasJoin ==
  ASSUME NEW u \in Nat, NEW n \in Nat, NEW y \in Seq(Answerable), DataOf(y, n, u)
  PROVE  Datas(0, u) \o y = Datas(0, u + n)
  <1> DEFINE d == Datas(0, u)
             e == Datas(0, u + n)
             dy == d \o y
  <1> USE DEF DataOf
  <1>1. /\ d \in Seq(Answerable) /\ Len(d) = u /\ \A k \in 1 .. u : d[k] = Data(k)
        /\ e \in Seq(Answerable) /\ Len(e) = u + n /\ \A k \in 1 .. u + n : e[k] = Data(k)
    <2>1. u + n \in Nat /\ 0 \in Nat /\ \A k \in Int : 0 + k = k
      OBVIOUS
    <2>2. /\ d \in Seq(Answerable) /\ Len(d) = u /\ \A k \in 1 .. u : d[k] = Data(0 + k)
          /\ e \in Seq(Answerable) /\ Len(e) = u + n /\ \A k \in 1 .. u + n : e[k] = Data(0 + k)
      BY <2>1, UnitsTyped
    <2>3. QED
      BY <2>1, <2>2
  <1> HIDE DEF d, e
  <1>2. /\ dy \in Seq(Answerable) /\ Len(dy) = Len(d) + Len(y)
        /\ \A k \in 1 .. Len(d) + Len(y) : dy[k] = IF k <= Len(d) THEN d[k] ELSE y[k - Len(d)]
    BY <1>1, ConcatProperties
  <1> HIDE DEF dy
  <1>3. ASSUME NEW k \in 1 .. u + n PROVE dy[k] = e[k]
    <2>1. dy[k] = (IF k <= u THEN d[k] ELSE y[k - u]) /\ e[k] = Data(k)
      BY <1>1, <1>2, <1>3
    <2>2. CASE k <= u
      BY <1>1, <2>1, <2>2
    <2>3. CASE k > u
      <3>1. k - u \in 1 .. n /\ u + (k - u) = k /\ ~(k <= u)
        BY <2>3
      <3>2. QED
        BY <2>1, <3>1
    <2>4. QED
      BY <2>2, <2>3
  <1>4. dy = e
    BY <1>1, <1>2, <1>3, SeqEqual
  <1>5. QED
    BY <1>4 DEF dy, d, e

LEMMA ChunkTaken ==
  ASSUME NEW p \in Seq(Answerable), NEW n \in Nat, n > 0, NEW u \in Nat, ChunkOf(p, n, u),
         NEW h \in Answerable, NEW buf \in Seq(Answerable), NEW reply \in Seq(Answerable),
         NEW f \in Seq(Answerable),
         Starts((<<h>> \o buf) \o reply, p \o f), Len(buf) >= n + 2
  PROVE  /\ SubSeq(buf, n + 3, Len(buf)) \in Seq(Answerable)
         /\ Starts(SubSeq(buf, n + 3, Len(buf)) \o reply, f)
         /\ SubSeq(buf, 1, n) \in Seq(Answerable) /\ DataOf(SubSeq(buf, 1, n), n, u)
  <1> DEFINE L == Len(buf)
             a == <<h>> \o buf
             x == SubSeq(buf, n + 3, L)
             y == SubSeq(buf, 1, n)
             z == SubSeq(a, n + 4, L + 1)
  <1>0. Len(p) = n + 3 /\ \A k \in 1 .. n : p[k + 1] = Data(u + k)
    BY DEF ChunkOf
  <1>1. L \in Nat /\ L >= n + 2
    OBVIOUS
  <1>2. a \in Seq(Answerable) /\ Len(a) = 1 + L /\ \A i \in 1 .. L : a[i + 1] = buf[i]
    <2>1. <<h>> \in Seq(Answerable) /\ Len(<<h>>) = 1
      OBVIOUS
    <2>2. /\ a \in Seq(Answerable) /\ Len(a) = Len(<<h>>) + L
          /\ \A i \in 1 .. Len(<<h>>) + L :
               a[i] = IF i <= Len(<<h>>) THEN <<h>>[i] ELSE buf[i - Len(<<h>>)]
      BY <2>1, ConcatProperties
    <2> HIDE DEF a, L
    <2>3. Len(a) = 1 + L
      BY <2>1, <2>2
    <2>4. ASSUME NEW i \in 1 .. L PROVE a[i + 1] = buf[i]
      <3>1. i + 1 \in 1 .. 1 + L /\ ~(i + 1 <= 1) /\ (i + 1) - 1 = i
        BY <1>1
      <3>2. QED
        BY <2>1, <2>2, <3>1
    <2>5. QED
      BY <2>2, <2>3, <2>4
  <1>3. x \in Seq(Answerable) /\ Len(x) = L - (n + 2) /\ \A i \in 1 .. L - (n + 2) : x[i] = buf[i + (n + 2)]
    <2>1. \A i \in n + 3 .. L : buf[i] \in Answerable
      OBVIOUS
    <2>2. n + 3 \in Int /\ L \in Int
      OBVIOUS
    <2>3. /\ x \in Seq(Answerable) /\ Len(x) = (IF n + 3 <= L THEN L - (n + 3) + 1 ELSE 0)
          /\ \A i \in 1 .. L - (n + 3) + 1 : x[i] = buf[(n + 3) + i - 1]
      BY <2>1, <2>2, SubSeqProperties
    <2> HIDE DEF L, x
    <2>4. L - (n + 3) + 1 = L - (n + 2) /\ \A i \in Int : (n + 3) + i - 1 = i + (n + 2)
      BY <1>1
    <2>5. QED
      BY <1>1, <2>3, <2>4
  <1>4. y \in Seq(Answerable) /\ Len(y) = n /\ \A i \in 1 .. n : y[i] = buf[i]
    OBVIOUS
  <1>5. z \in Seq(Answerable) /\ Len(z) = L - (n + 2) /\ \A i \in 1 .. L - (n + 2) : z[i] = a[i + (n + 3)]
    <2> HIDE DEF a, L
    <2>1. \A i \in n + 4 .. L + 1 : a[i] \in Answerable
      BY <1>1, <1>2
    <2>2. n + 4 \in Int /\ L + 1 \in Int
      BY <1>1
    <2>3. /\ z \in Seq(Answerable) /\ Len(z) = (IF n + 4 <= L + 1 THEN (L + 1) - (n + 4) + 1 ELSE 0)
          /\ \A i \in 1 .. (L + 1) - (n + 4) + 1 : z[i] = a[(n + 4) + i - 1]
      BY SMTT(60), <2>1, <2>2, SubSeqProperties
    <2> HIDE DEF z
    <2>4. (L + 1) - (n + 4) + 1 = L - (n + 2) /\ \A i \in Int : (n + 4) + i - 1 = i + (n + 3)
      BY <1>1
    <2>5. QED
      BY <1>1, <2>3, <2>4
  <1>6. Starts(z \o reply, f) /\ \A i \in 1 .. n + 3 : a[i] = p[i]
    <2>1. Len(p) <= Len(a)
      BY <1>0, <1>1, <1>2
    <2>2. Len(p) + 1 = n + 4 /\ Len(a) = L + 1
      BY <1>0, <1>1, <1>2
    <2>3. Starts(a \o reply, p \o f)
      OBVIOUS
    <2> HIDE DEF a
    <2>4. /\ Starts(SubSeq(a, Len(p) + 1, Len(a)) \o reply, f)
          /\ \A i \in 1 .. Len(p) : a[i] = p[i]
      BY ZenonT(60), <1>2, <2>1, <2>3, Dropped
    <2>5. QED
      BY <1>0, <2>2, <2>4
  <1> HIDE DEF L, a, x, y, z
  <1>7. z = x
    <2>1. ASSUME NEW i \in 1 .. L - (n + 2) PROVE z[i] = x[i]
      <3>1. i + (n + 2) \in 1 .. L /\ (i + (n + 2)) + 1 = i + (n + 3)
        BY <1>1
      <3>2. a[i + (n + 3)] = buf[i + (n + 2)]
        BY <1>2, <3>1
      <3>3. QED
        BY <1>3, <1>5, <3>2
    <2>2. QED
      BY <1>3, <1>5, <2>1, SeqEqual
  <1>8. ASSUME NEW i \in 1 .. n PROVE y[i] = Data(u + i)
    <2>1. i \in 1 .. L /\ i + 1 \in 1 .. n + 3
      BY <1>1
    <2>2. QED
      BY <1>0, <1>2, <1>4, <1>6, <2>1
  <1>9. DataOf(y, n, u)
    BY <1>4, <1>8 DEF DataOf
  <1>10. QED
    BY <1>3, <1>4, <1>6, <1>7, <1>9 DEF L, x, y

LEMMA TakeChunkHandled ==
  ASSUME Chunky, NEW c \in Calls, NEW reply \in Seq(Answerable),
         NEW m \in 1 .. Len(server.ans.chunks), InChunk(c, reply, server.ans.chunks, m),
         Len(c.buf) >= c.chunk + 2
  PROVE  Handled(TakeChunk(c), c, reply)
  <1> DEFINE cs == server.ans.chunks
             N == Len(cs)
             n == c.chunk
             j == N - m
             p == OneChunk(cs, j)
             s == Sums(cs)
             f == ChunksFrom(cs)[m-1]
  <1>1. /\ cs \in Seq(Nat \ {0}) /\ N \in Nat /\ j \in 0 .. N - 1 /\ m - 1 \in 0 .. N
        /\ N - m + 1 = j + 1 /\ N - (m - 1) = j + 1 /\ j + 1 \in 1 .. N /\ (j + 1) - 1 = j
        /\ j \in 0 .. N
    <2>1. cs \in Seq(Nat \ {0}) /\ N \in Nat /\ m \in 1 .. N
      BY ChunkyIs
    <2> HIDE DEF N
    <2>2. QED
      BY <2>1
  <1>2. n = cs[j + 1]
    BY <1>1 DEF InChunk
  <1>3. /\ p \in Seq(Answerable) /\ Len(p) = n + 3 /\ n \in Nat \ {0}
        /\ \A k \in 1 .. n : p[k + 1] = Data(s[j] + k)
    BY <1>1, <1>2, OneChunkIs
  <1>4. c.buf \in Seq(Answerable) /\ Size(n) \in Answerable /\ n \in Nat /\ n > 0
    <2>1. c.buf \in Seq(Answerable)
      BY DEF Calls
    <2>2. n \in Nat /\ n > 0
      BY <1>3
    <2>3. Size(n) \in Answerable
      BY <2>2, TokensTyped
    <2>4. QED
      BY <2>1, <2>2, <2>3
  <1>5. ChunksFrom(cs)[m] = p \o f /\ f \in Seq(Answerable)
    BY <1>1, ChunksAre
  <1>6. Starts((<<Size(n)>> \o c.buf) \o reply, p \o f) /\ c.body = Datas(0, s[j])
    BY <1>5 DEF InChunk, BodySoFar
  <1>7. s[j + 1] = s[j] + n /\ s[j] \in Nat
    BY <1>1, <1>2, SumsAre
  <1> DEFINE u == s[j]
             v == s[j + 1]
             buf == c.buf
             x == SubSeq(buf, n + 3, Len(buf))
             y == SubSeq(buf, 1, n)
  <1>b. ChunkOf(p, n, u)
    BY <1>3 DEF ChunkOf
  <1>a. /\ p \in Seq(Answerable) /\ n \in Nat /\ n > 0 /\ u \in Nat
        /\ Size(n) \in Answerable /\ buf \in Seq(Answerable) /\ f \in Seq(Answerable)
        /\ Starts((<<Size(n)>> \o buf) \o reply, p \o f) /\ Len(buf) >= n + 2
        /\ v = u + n /\ c.body = Datas(0, u)
    BY <1>3, <1>4, <1>5, <1>6, <1>7
  <1> HIDE DEF p, f, s, j, n, u, v, buf
  <1>8. /\ x \in Seq(Answerable) /\ Starts(x \o reply, f)
        /\ y \in Seq(Answerable) /\ DataOf(y, n, u)
    BY ZenonT(60), <1>a, <1>b, ChunkTaken
  <1> HIDE DEF x, y
  <1>9. c.body \o y = Datas(0, v)
    BY ZenonT(60), <1>a, <1>8, DatasJoin
  <1>10. c.body \o y \in Seq(Answerable)
    <2>1. v \in Nat
      BY <1>a
    <2>2. QED
      BY <1>9, <2>1, UnitsTyped
  <1> DEFINE r == TakeChunk(c)
  <1>11. r = [c EXCEPT !.pc = "size", !.body = c.body \o y, !.chunk = 0, !.buf = x, !.left = 0]
    BY DEF TakeChunk, Calls, x, y, n, buf
  <1> HIDE DEF r
  <1>12. /\ r \in Calls /\ r.pc = "size" /\ r.body = c.body \o y /\ r.buf = x /\ r.kind = c.kind
    BY <1>8, <1>10, <1>11 DEF Calls, CallPlaces, Reads
  <1>13. BeforeChunk(r, reply, cs, m - 1)
    BY <1>1, <1>8, <1>9, <1>12 DEF BeforeChunk, BodySoFar, f, s, j, v
  <1>14. r.pc \notin Early /\ Comes(r, reply, server.ans, server.interim) /\ Told(r, server.ans)
    BY <1>1, <1>12, <1>13, ChunkyIs DEF Comes, Told, Early, Reads
  <1>15. QED
    BY <1>12, <1>14 DEF Handled, r

LEMMA WaitChunkHandled ==
  ASSUME Chunky, NEW c \in Calls, NEW reply \in Seq(Answerable),
         NEW m \in 1 .. Len(server.ans.chunks), InChunk(c, reply, server.ans.chunks, m)
  PROVE  Handled(WaitChunk(c), c, reply)
  <1> DEFINE left == c.chunk - Len(c.buf) + 2
             r == [c EXCEPT !.pc = "chunk", !.left = left]
  <1>1. c.chunk \in Nat /\ Len(c.buf) \in Nat
    BY DEF Calls
  <1>2. CASE left > 0
    <2>1. left \in Nat /\ left + Len(c.buf) = c.chunk + 2
      BY <1>1, <1>2
    <2>2. WaitChunk(c) = r
      BY <1>2 DEF WaitChunk
    <2> HIDE DEF left
    <2>3. /\ r \in Calls /\ r.pc = "chunk" /\ r.left = left /\ r.kind = c.kind
          /\ r.buf = c.buf /\ r.body = c.body /\ r.chunk = c.chunk
      BY <2>1 DEF Calls, CallPlaces, Reads
    <2> HIDE DEF r
    <2>4. InChunk(r, reply, server.ans.chunks, m)
      BY <2>3 DEF InChunk, BodySoFar
    <2>5. r.left + Len(r.buf) = r.chunk + 2 /\ r.left > 0
      BY <1>2, <2>1, <2>3
    <2>6. r.pc \notin Early /\ Told(r, server.ans)
      BY <2>3 DEF Told, Early
    <2>7. Comes(r, reply, server.ans, server.interim)
      BY <2>3, <2>4, <2>5, ChunkyIs DEF Comes, Early, Reads
    <2>8. QED
      BY <2>2, <2>3, <2>6, <2>7 DEF Handled
  <1>3. CASE ~(left > 0)
    <2>1. Len(c.buf) >= c.chunk + 2
      BY <1>1, <1>3
    <2>2. WaitChunk(c) = TakeChunk(c)
      BY <1>3 DEF WaitChunk
    <2>3. QED
      BY <2>1, <2>2, TakeChunkHandled
  <1>4. QED
    BY <1>2, <1>3

LEMMA StartsItself ==
  ASSUME NEW s, NEW t, s = t, Len(t) \in Nat
  PROVE  Starts(s, t)
  BY DEF Starts

LEMMA WholeBody ==
  ASSUME NEW c \in Calls, NEW reply, server.ans \in Answers(Codes), c.body = Body(server.ans.chunks)
  PROVE  Handled(Returned(c), c, reply)
  <1>1. Len(Body(server.ans.chunks)) \in Nat
    BY AnswerIs
  <1>2. Starts(c.body, Body(server.ans.chunks))
    BY <1>1, StartsItself
  <1>3. QED
    BY <1>2, ReturnedHandled

LEMMA LastChunkHandled ==
  ASSUME Chunky, NEW c \in Calls, NEW reply, c.body = Body(server.ans.chunks)
  PROVE  Handled(LastChunk(c), c, reply)
  <1>1. CASE Len(c.buf) < 2
    <2> DEFINE left == 2 - Len(c.buf)
               r == [c EXCEPT !.pc = "last", !.left = left]
    <2>1. left \in Nat
      <3>1. Len(c.buf) \in Nat
        BY DEF Calls
      <3>2. QED
        BY <1>1, <3>1
    <2>2. LastChunk(c) = r
      BY <1>1 DEF LastChunk
    <2> HIDE DEF left
    <2>3. r \in Calls /\ r.pc = "last" /\ r.kind = c.kind /\ r.body = c.body
      BY <2>1 DEF Calls, CallPlaces, Reads
    <2> HIDE DEF r
    <2>4. r.pc \notin Early /\ Told(r, server.ans) /\ Comes(r, reply, server.ans, server.interim)
      BY <2>3, ChunkyIs DEF Told, Early, Comes, Reads
    <2>5. QED
      BY <2>2, <2>3, <2>4 DEF Handled
  <1>2. CASE ~(Len(c.buf) < 2)
    <2>1. LastChunk(c) = Returned(c)
      BY <1>2 DEF LastChunk
    <2>2. QED
      BY <2>1, WholeBody, ChunkyIs
  <1>3. QED
    BY <1>1, <1>2

LEMMA HeadFirst ==
  ASSUME NEW S, NEW s \in Seq(S), s # <<>>, NEW t \in Seq(S), NEW u, Starts(s \o t, u)
  PROVE  /\ Head(s) = u[1] /\ Head(s) = s[1] /\ Head(s) \in S
         /\ Tail(s) \in Seq(S) /\ Len(Tail(s)) = Len(s) - 1 /\ <<Head(s)>> \o Tail(s) = s
  <1> DEFINE L == Len(s)
             st == s \o t
             y == Tail(s)
             h == <<Head(s)>>
             hy == h \o y
  <1>1. /\ Head(s) \in S /\ y \in Seq(S) /\ Len(y) = L - 1
        /\ \A i \in 1 .. Len(y) : y[i] = s[i + 1]
    BY HeadTailProperties
  <1>2. L \in Nat /\ L > 0 /\ Len(t) \in Nat /\ Head(s) = s[1]
    BY EmptySeq
  <1>3. /\ Len(st) = L + Len(t)
        /\ \A i \in 1 .. L + Len(t) : st[i] = IF i <= L THEN s[i] ELSE t[i - L]
    BY ConcatProperties
  <1>4. h \in Seq(S) /\ Len(h) = 1 /\ h[1] = s[1]
    BY <1>1, <1>2
  <1>5. Starts(st, u)
    OBVIOUS
  <1> HIDE DEF h, y, L, st
  <1>6. s[1] = u[1]
    <2>1. 1 \in 1 .. L + Len(t) /\ 1 <= L
      BY <1>2
    <2>2. st[1] = s[1] /\ 1 \in 1 .. Len(st)
      BY <1>3, <2>1
    <2>3. QED
      BY <1>5, <2>2 DEF Starts
  <1>7. /\ hy \in Seq(S) /\ Len(hy) = Len(h) + Len(y)
        /\ \A i \in 1 .. Len(h) + Len(y) : hy[i] = IF i <= Len(h) THEN h[i] ELSE y[i - Len(h)]
    <2>1. h \in Seq(S) /\ y \in Seq(S)
      BY <1>1, <1>4
    <2>2. QED
      BY <2>1, ConcatProperties
  <1> HIDE DEF hy
  <1>8. Len(hy) = L
    BY <1>1, <1>2, <1>4, <1>7
  <1>9. ASSUME NEW i \in 1 .. L PROVE hy[i] = s[i]
    <2>1. hy[i] = IF i <= 1 THEN h[i] ELSE y[i - 1]
      BY <1>1, <1>2, <1>4, <1>7
    <2>2. CASE i = 1
      BY <1>4, <2>1, <2>2
    <2>3. CASE i # 1
      <3>1. i - 1 \in 1 .. Len(y) /\ (i - 1) + 1 = i /\ ~(i <= 1)
        BY <1>1, <1>2, <2>3
      <3>2. QED
        BY <1>1, <2>1, <3>1
    <2>4. QED
      BY <2>2, <2>3
  <1>10. hy = s
    BY <1>7, <1>8, <1>9, SeqEqual DEF L
  <1>11. QED
    BY <1>1, <1>2, <1>6, <1>10 DEF hy, h, y, L

(* The size of a chunk: it is 0 for the last one only.                     *)
LEMMA ChunkSize ==
  ASSUME NEW cs \in Seq(Nat \ {0}), NEW m \in 0 .. Len(cs)
  PROVE  IF m = 0 THEN ChunksFrom(cs)[m][1] = Size(0)
         ELSE ChunksFrom(cs)[m][1] = Size(cs[Len(cs) - m + 1]) /\ cs[Len(cs) - m + 1] \in Nat \ {0}
  <1> DEFINE N == Len(cs)
             j == N - m
  <1>1. CASE m = 0
    <2>1. ChunksFrom(cs)[0] = <<Size(0), Cr, Lf>>
      BY ChunksAre
    <2>2. ChunksFrom(cs)[0][1] = Size(0)
      BY <2>1
    <2>3. QED
      BY <1>1, <2>2
  <1>2. CASE m # 0
    <2>1. N \in Nat /\ m \in 1 .. N
      BY <1>2
    <2>2. j \in 0 .. N - 1 /\ m - 1 \in 0 .. N /\ N - m + 1 = j + 1
      <3> HIDE DEF N
      <3>1. QED
        BY <2>1
    <2> DEFINE p == OneChunk(cs, j)
               f == ChunksFrom(cs)[m-1]
    <2>3. ChunksFrom(cs)[m] = p \o f /\ f \in Seq(Answerable)
      BY <2>1, <2>2, ChunksAre
    <2>4. p \in Seq(Answerable) /\ Len(p) = cs[j+1] + 3 /\ cs[j+1] \in Nat \ {0} /\ p[1] = Size(cs[j+1])
      BY <2>2, OneChunkIs
    <2> HIDE DEF p, f
    <2>5. \A i \in 1 .. Len(p) + Len(f) : (p \o f)[i] = IF i <= Len(p) THEN p[i] ELSE f[i - Len(p)]
      BY <2>3, <2>4, ConcatProperties
    <2>6. 1 \in 1 .. Len(p) + Len(f) /\ 1 <= Len(p)
      BY <2>3, <2>4
    <2>7. (p \o f)[1] = p[1]
      BY <2>5, <2>6
    <2>8. QED
      BY <1>2, <2>2, <2>3, <2>4, <2>7
  <1>3. QED
    BY <1>1, <1>2

LEMMA SizeHandled ==
  ASSUME Chunky, NEW c \in Calls, NEW reply \in Seq(Answerable), c.buf # <<>>,
         NEW m \in 0 .. Len(server.ans.chunks), BeforeChunk(c, reply, server.ans.chunks, m),
         NEW r, r = [c EXCEPT !.chunk = Head(c.buf)[2], !.buf = Tail(c.buf), !.left = 0]
  PROVE  Handled(IF r.chunk = 0 THEN LastChunk(r) ELSE WaitChunk(r), c, reply)
  <1> DEFINE cs == server.ans.chunks
             N == Len(cs)
             F == ChunksFrom(cs)[m]
             n == IF m = 0 THEN 0 ELSE cs[N - m + 1]
  <1>1. cs \in Seq(Nat \ {0}) /\ N \in Nat /\ m \in 0 .. N
    BY ChunkyIs
  <1>2. F[1] = Size(n) /\ n \in Nat /\ (n = 0 <=> m = 0)
    BY <1>1, ChunkSize
  <1>3. Size(n) \in Answerable /\ Size(n)[2] = n
    BY <1>2, TokensTyped
  <1>4. c.buf \in Seq(Answerable) /\ Starts(c.buf \o reply, F) /\ c.body = Datas(0, Sums(cs)[N - m])
    BY DEF Calls, BeforeChunk, BodySoFar
  <1> HIDE DEF F
  <1>5. /\ Head(c.buf) = F[1] /\ Tail(c.buf) \in Seq(Answerable)
        /\ <<Head(c.buf)>> \o Tail(c.buf) = c.buf
    BY <1>4, HeadFirst
  <1>6. Head(c.buf)[2] = n
    BY <1>2, <1>3, <1>5
  <1> HIDE DEF n
  <1>7. /\ r \in Calls /\ r.chunk = n /\ r.buf = Tail(c.buf) /\ r.body = c.body /\ r.kind = c.kind
    BY <1>2, <1>5, <1>6 DEF Calls
  <1>8. CASE m = 0
    <2>1. N - m = N
      BY <1>1, <1>8
    <2>2. r.body = Body(cs) /\ r.chunk = 0
      BY <1>2, <1>4, <1>7, <1>8, <2>1 DEF Body, Total
    <2>3. Handled(LastChunk(r), r, reply)
      BY <1>7, <2>2, LastChunkHandled
    <2>4. QED
      BY <1>7, <2>2, <2>3 DEF Handled
  <1>9. CASE m # 0
    <2>1. m \in 1 .. N /\ n = cs[N - m + 1] /\ r.chunk # 0
      <3>1. n = cs[N - m + 1]
        BY <1>9 DEF n
      <3>2. r.chunk # 0
        BY <1>2, <1>7, <1>9
      <3> HIDE DEF N
      <3>3. m \in 1 .. N
        BY <1>1, <1>9
      <3>4. QED
        BY <3>1, <3>2, <3>3
    <2>2. <<Size(r.chunk)>> \o r.buf = c.buf
      BY <1>2, <1>5, <1>7
    <2>3. InChunk(r, reply, cs, m)
      BY <1>4, <1>7, <2>1, <2>2 DEF InChunk, BodySoFar, F
    <2>4. Handled(WaitChunk(r), r, reply)
      BY <1>7, <2>1, <2>3, WaitChunkHandled
    <2>5. QED
      BY <1>7, <2>1, <2>4 DEF Handled
  <1>10. QED
    BY <1>8, <1>9

(* Where the body starts, and the headers of an answer.                    *)
LEMMA StartBodyHandled ==
  ASSUME NEW c \in Calls, NEW reply \in Seq(Answerable), server.ans \in Answers(Codes),
         c.body = <<>>, Starts(c.buf \o reply, Follows(server.ans))
  PROVE  Handled(StartBody(c), c, reply)
  <1> DEFINE ans == server.ans
             cs == server.ans.chunks
             N == Len(cs)
  <1>1. ans.framing \in Framings /\ ans # NoAnswer /\ cs \in Seq(Nat \ {0}) /\ N \in Nat
    <2>1. cs \in Seq(Nat \ {0})
      BY AnswerIs
    <2>2. QED
      BY <2>1 DEF Answers, NoAnswer, Codes
  <1>2. ans.framing # "chunked" => Starts(c.buf \o reply, Body(cs))
    BY DEF Follows
  <1>3. CASE ans.framing = "length"
    <2>1. Handled(BodyOfLength(c), c, reply)
      BY <1>2, <1>3, LengthHandled
    <2>2. QED
      BY <1>3, <2>1 DEF StartBody
  <1>4. CASE ans.framing = "chunked"
    <2> DEFINE r == [c EXCEPT !.pc = "size"]
    <2>1. /\ r \in Calls /\ r.pc = "size" /\ r.kind = c.kind /\ r.buf = c.buf /\ r.body = <<>>
      BY DEF Calls, CallPlaces, Reads
    <2>2. StartBody(c) = r
      BY <1>4 DEF StartBody
    <2> HIDE DEF r
    <2>3. BeforeChunk(r, reply, cs, N)
      <3>1. Starts(r.buf \o reply, ChunksFrom(cs)[N])
        BY <1>4, <2>1 DEF Follows, Chunked
      <3>2. N - N = 0
        BY <1>1
      <3>3. r.body = Datas(0, Sums(cs)[0])
        BY <1>1, <2>1, EmptyBody
      <3>4. QED
        BY <3>1, <3>2, <3>3 DEF BeforeChunk, BodySoFar
    <2>4. N \in 0 .. N
      BY <1>1
    <2>5. Comes(r, reply, ans, server.interim)
      BY <1>1, <1>4, <2>1, <2>3, <2>4 DEF Comes, Early, Reads
    <2>6. r.pc \notin Early /\ Told(r, ans)
      BY <2>1 DEF Told, Early
    <2>7. QED
      BY <2>1, <2>2, <2>5, <2>6 DEF Handled
  <1>5. CASE ans.framing = "close"
    <2> DEFINE r == [c EXCEPT !.pc = "close"]
    <2>1. /\ r \in Calls /\ r.pc = "close" /\ r.kind = c.kind /\ r.buf = c.buf /\ r.body = <<>>
      BY DEF Calls, CallPlaces, Reads
    <2>2. StartBody(c) = r
      BY <1>5 DEF StartBody
    <2> HIDE DEF r
    <2>3. Comes(r, reply, ans, server.interim)
      BY <1>1, <1>2, <1>5, <2>1 DEF Comes, Early, Reads
    <2>4. r.pc \notin Early /\ Told(r, ans)
      BY <2>1 DEF Told, Early
    <2>5. QED
      BY <2>1, <2>2, <2>3, <2>4 DEF Handled
  <1>6. CASE ans.framing = "bad"
    <2>1. StartBody(c) = Failed(c)
      BY <1>6 DEF StartBody
    <2>2. QED
      BY <2>1, FailedHandled
  <1>7. QED
    BY <1>1, <1>3, <1>4, <1>5, <1>6 DEF Framings

(* What the headers can start with.                                        *)
HeadersComing(coming) ==
  IF server.ans = NoAnswer THEN coming = <<>> \/ coming = <<Cont>>
  ELSE Starts(coming, Encode(server.ans)) \/ Starts(coming, <<Cont>> \o Encode(server.ans))

LEMMA InBuffer ==
  ASSUME NEW S, NEW a \in Seq(S), NEW b \in Seq(S), NEW u \in Seq(S), Starts(a \o b, u)
  PROVE  Len(a) <= Len(u) /\ \A i \in 1 .. Len(a) : a[i] = u[i]
  <1>1. Starts(a, u)
    BY StartsLeft
  <1>2. QED
    BY <1>1 DEF Starts

LEMMA InterimDropped ==
  ASSUME NEW buf \in Seq(Answerable), NEW reply \in Seq(Answerable), buf # <<>>, Head(buf) = Cont,
         server.ans \in {NoAnswer} \cup Answers(Codes), HeadersComing(buf \o reply)
  PROVE  /\ Tail(buf) \in Seq(Answerable)
         /\ IF server.ans = NoAnswer THEN Tail(buf) \o reply = <<>>
            ELSE Starts(Tail(buf) \o reply, Encode(server.ans))
  <1> DEFINE ans == server.ans
             coming == buf \o reply
             p == <<Cont>>
             y == Tail(buf)
  <1>1. p \in Seq(Answerable) /\ Len(p) = 1 /\ p[1] = Cont /\ Cont # Head1
    BY TokensTyped
  <1>2. y \in Seq(Answerable) /\ y = SubSeq(buf, Len(p) + 1, Len(buf)) /\ Len(p) <= Len(buf) /\ buf[1] = Cont
    <2>1. y \in Seq(Answerable) /\ Head(buf) = buf[1]
      BY HeadTailProperties
    <2>2. y = SubSeq(buf, 2, Len(buf))
      BY TailIsSubSeq
    <2>3. Len(buf) \in Nat /\ Len(buf) > 0
      BY EmptySeq
    <2> HIDE DEF p, y
    <2>4. QED
      BY <1>1, <2>1, <2>2, <2>3
  <1>3. coming \in Seq(Answerable) /\ Len(coming) = Len(buf) + Len(reply)
    BY ConcatProperties
  <1> HIDE DEF y, p
  <1>4. CASE ans = NoAnswer
    <2>1. coming = <<>> \/ coming = p
      BY <1>4 DEF HeadersComing, p
    <2>2. Len(coming) > 0
      BY <1>1, <1>2, <1>3
    <2>3. coming = p \o <<>>
      BY <1>1, <2>1, <2>2, ConcatEmptySeq
    <2>4. Starts(coming, p \o <<>>)
      <3>1. Len(p \o <<>>) \in Nat
        BY <1>1
      <3>2. QED
        BY <2>3, <3>1, StartsItself
    <2>5. <<>> \in Seq(Answerable)
      OBVIOUS
    <2>6. Starts(y \o reply, <<>>)
      BY ZenonT(60), <1>1, <1>2, <2>4, <2>5, Dropped
    <2>7. y \o reply \in Seq(Answerable) /\ Len(y \o reply) <= 0
      BY <1>2, <2>6, ConcatProperties DEF Starts
    <2>8. y \o reply = <<>>
      BY <2>7, EmptySeq
    <2>9. QED
      BY <1>2, <1>4, <2>8 DEF y
  <1>5. CASE ans # NoAnswer
    <2> DEFINE e == Encode(ans)
               ce == p \o e
    <2>1. ans \in Answers(Codes)
      BY <1>5
    <2>2. e \in Seq(Answerable) /\ e[1] = Head1 /\ ce \in Seq(Answerable)
      BY <2>1, AnswerIs DEF p
    <2>3. Starts(coming, e) \/ Starts(coming, ce)
      BY <1>5 DEF HeadersComing, p
    <2> HIDE DEF e, ce
    <2>4. 1 \in 1 .. Len(buf)
      BY <1>1, <1>2
    <2>5. ~Starts(coming, e)
      BY <1>1, <1>2, <2>2, <2>4, InBuffer
    <2>6. Starts(coming, p \o e)
      BY <2>3, <2>5 DEF ce
    <2>7. Starts(y \o reply, e)
      BY ZenonT(60), <1>1, <1>2, <2>2, <2>6, Dropped
    <2>8. QED
      BY <1>2, <1>5, <2>7 DEF y, e
  <1>6. QED
    BY <1>4, <1>5

LEMMA HeadersDropped ==
  ASSUME NEW buf \in Seq(Answerable), NEW reply \in Seq(Answerable), ~(buf # <<>> /\ Head(buf) = Cont),
         Contains(buf, Head2), server.ans \in {NoAnswer} \cup Answers(Codes), HeadersComing(buf \o reply)
  PROVE  /\ server.ans \in Answers(Codes) /\ SubSeq(buf, 3, Len(buf)) \in Seq(Answerable)
         /\ Starts(SubSeq(buf, 3, Len(buf)) \o reply, Follows(server.ans))
  <1> DEFINE ans == server.ans
             coming == buf \o reply
             L == Len(buf)
             p == <<Head1, Head2>>
             x == SubSeq(buf, 3, L)
  <1>1. PICK i \in 1 .. L : buf[i] = Head2
    BY DEF Contains
  <1>2. Cont # Head2 /\ Cont # Head1 /\ Head1 # Head2 /\ p \in Seq(Answerable) /\ Len(p) = 2
    BY TokensTyped
  <1>3. L \in Nat /\ 1 \in 1 .. L /\ buf[1] # Cont
    <2>1. L \in Nat /\ L >= 1 /\ buf # <<>>
      BY <1>1
    <2>2. Head(buf) = buf[1]
      BY <2>1, HeadTailProperties
    <2>3. QED
      BY <2>1, <2>2
  <1>4. coming \in Seq(Answerable) /\ Len(coming) = L + Len(reply) /\ \A j \in 1 .. L : coming[j] = buf[j]
    <2>1. /\ coming \in Seq(Answerable) /\ Len(coming) = L + Len(reply) /\ Len(reply) \in Nat
          /\ \A j \in 1 .. L + Len(reply) : coming[j] = IF j <= L THEN buf[j] ELSE reply[j - L]
      BY ConcatProperties
    <2> HIDE DEF coming, L
    <2>2. QED
      BY <1>3, <2>1
  <1>5. ans # NoAnswer
    <2> SUFFICES ASSUME ans = NoAnswer PROVE FALSE
      OBVIOUS
    <2>1. coming = <<>> \/ coming = <<Cont>>
      BY DEF HeadersComing
    <2> HIDE DEF coming, L
    <2>2. coming # <<>>
      BY <1>3, <1>4
    <2>3. coming[1] = Cont
      BY <2>1, <2>2
    <2>4. QED
      BY <1>3, <1>4, <2>3
  <1> DEFINE e == Encode(ans)
             ce == <<Cont>> \o e
             f == Follows(ans)
  <1>6. /\ ans \in Answers(Codes) /\ e \in Seq(Answerable) /\ e[1] = Head1 /\ e = p \o f
        /\ f \in Seq(Answerable) /\ ce \in Seq(Answerable) /\ ce[1] = Cont
    BY <1>5, AnswerIs
  <1>7. Starts(coming, e) \/ Starts(coming, ce)
    BY <1>5 DEF HeadersComing
  <1> HIDE DEF e, ce, f, p
  <1>8. Starts(coming, e)
    BY <1>3, <1>6, <1>7, InBuffer
  <1>9. buf[1] = Head1
    <2>1. \A j \in 1 .. Len(buf) : buf[j] = e[j]
      BY ZenonT(60), <1>6, <1>8, InBuffer
    <2>2. QED
      BY <1>3, <1>6, <2>1
  <1>10. Len(p) <= L
    <2>1. i # 1
      BY <1>1, <1>2, <1>9
    <2> HIDE DEF L
    <2>2. QED
      BY <1>1, <1>2, <1>3, <2>1
  <1>11. Starts(SubSeq(buf, Len(p) + 1, L) \o reply, f)
    BY ZenonT(60), <1>2, <1>6, <1>8, <1>10, Dropped
  <1>12. Len(p) + 1 = 3
    BY <1>2
  <1>13. x \in Seq(Answerable)
    BY <1>3
  <1>14. QED
    BY <1>6, <1>11, <1>12, <1>13 DEF f

LEMMA ReadHeadersHandled ==
  ASSUME NEW c \in Calls, c.pc = "headers_in", NEW reply \in Seq(Answerable),
         server.ans \in {NoAnswer} \cup Answers(Codes),
         Comes(c, reply, server.ans, server.interim)
  PROVE  Handled(ReadHeaders(c), c, reply)
  <1> DEFINE ans == server.ans
             interim == c.buf # <<>> /\ Head(c.buf) = Cont
  <1>1. c.body = <<>> /\ HeadersComing(c.buf \o reply) /\ c.buf \in Seq(Answerable)
    BY DEF Comes, HeadersComing, Calls
  <1>2. CASE interim
    <2> DEFINE r == [c EXCEPT !.buf = Tail(@), !.left = 0]
    <2>1. /\ Tail(c.buf) \in Seq(Answerable)
          /\ IF ans = NoAnswer THEN Tail(c.buf) \o reply = <<>>
             ELSE Starts(Tail(c.buf) \o reply, Encode(ans))
      BY <1>1, <1>2, InterimDropped
    <2>2. /\ r \in Calls /\ r.pc = "headers_in" /\ r.kind = c.kind /\ r.body = <<>> /\ r.buf = Tail(c.buf)
      BY <1>1, <2>1 DEF Calls
    <2>3. ReadHeaders(c) = r
      BY <1>2 DEF ReadHeaders
    <2> HIDE DEF r
    <2>4. r.pc \notin Early /\ Told(r, ans)
      BY <2>2 DEF Told, Early
    <2>5. Comes(r, reply, ans, server.interim)
      BY <2>1, <2>2 DEF Comes, Early, Reads
    <2>6. QED
      BY <2>2, <2>3, <2>4, <2>5 DEF Handled
  <1>3. CASE ~interim /\ Contains(c.buf, Head2)
    <2> DEFINE x == SubSeq(c.buf, 3, Len(c.buf))
               r == [c EXCEPT !.buf = x, !.left = 0]
    <2>1. ans \in Answers(Codes) /\ x \in Seq(Answerable) /\ Starts(x \o reply, Follows(ans))
      BY <1>1, <1>3, HeadersDropped
    <2>2. ReadHeaders(c) = StartBody(r)
      BY <1>3 DEF ReadHeaders, Calls
    <2> HIDE DEF x
    <2>3. r \in Calls /\ r.kind = c.kind /\ r.body = <<>> /\ r.buf = x
      BY <1>1, <2>1 DEF Calls
    <2> HIDE DEF r
    <2>4. Handled(StartBody(r), r, reply)
      BY <2>1, <2>3, StartBodyHandled
    <2>5. QED
      BY <2>2, <2>3, <2>4 DEF Handled
  <1>4. CASE ~interim /\ ~Contains(c.buf, Head2)
    <2>1. ReadHeaders(c) = c
      BY <1>4 DEF ReadHeaders
    <2>2. c.pc \notin Early /\ Told(c, ans)
      BY DEF Told, Early
    <2>3. QED
      BY <2>1, <2>2 DEF Handled
  <1>5. QED
    BY <1>2, <1>3, <1>4

-----------------------------------------------------------------------------
(* The steps that read.                                                    *)
LEMMA Assoc ==
  \A S : \A a, b, c \in Seq(S) : (a \o b) \o c = a \o (b \o c)
  BY ConcatAssociative

SameJoin(a, b, c, d) == a \o b = c \o d

LEMMA Regrouped ==
  ASSUME NEW S, NEW h \in Seq(S), NEW x \in Seq(S), NEW b \in Seq(S), NEW y \in Seq(S), NEW d \in Seq(S),
         SameJoin(y, d, x, b)
  PROVE  (h \o y) \o d = (h \o x) \o b
  <1>1. (h \o y) \o d = h \o (y \o d)
    BY SMTT(30), Assoc
  <1>2. (h \o x) \o b = h \o (x \o b)
    BY SMTT(30), Assoc
  <1>3. QED
    BY <1>1, <1>2 DEF SameJoin

LEMMA SameChunk ==
  ASSUME NEW c \in Calls, NEW r \in Calls, NEW reply \in Seq(Answerable), NEW rest \in Seq(Answerable),
         SameJoin(r.buf, rest, c.buf, reply), r.body = c.body, r.chunk = c.chunk,
         NEW cs, NEW m, InChunk(c, reply, cs, m)
  PROVE  InChunk(r, rest, cs, m)
  <1> DEFINE h == <<Size(c.chunk)>>
  <1>1. /\ h \in Seq(Answerable) /\ c.buf \in Seq(Answerable) /\ r.buf \in Seq(Answerable)
    <2>1. c.chunk \in Nat /\ c.buf \in Seq(Answerable) /\ r.buf \in Seq(Answerable)
      BY DEF Calls
    <2>2. QED
      BY <2>1, TokensTyped
  <1> HIDE DEF h
  <1> DEFINE x == c.buf
             y == r.buf
  <1>2. x \in Seq(Answerable) /\ y \in Seq(Answerable) /\ SameJoin(y, rest, x, reply)
    BY <1>1
  <1> HIDE DEF x, y
  <1>3. (h \o y) \o rest = (h \o x) \o reply
    <2>1. h \in Seq(Answerable)
      BY <1>1
    <2>2. QED
      BY SMTT(60), <1>2, <2>1, Regrouped
  <1>4. Starts((<<Size(r.chunk)>> \o r.buf) \o rest, ChunksFrom(cs)[m])
    BY <1>3 DEF InChunk, h, x, y
  <1>5. QED
    BY <1>4 DEF InChunk, BodySoFar

LEMMA SameComing ==
  ASSUME NEW c \in Calls, NEW r \in Calls, NEW reply \in Seq(Answerable), NEW rest \in Seq(Answerable),
         SameJoin(r.buf, rest, c.buf, reply), r.pc = c.pc, r.body = c.body, r.chunk = c.chunk,
         c.pc \in Early => r.buf = <<>>,
         c.pc \in {"length", "chunk"} => r.left + Len(r.buf) = c.left + Len(c.buf) /\ r.left > 0,
         NEW ans, NEW interim, Comes(c, reply, ans, interim)
  PROVE  Comes(r, rest, ans, interim)
  <1> DEFINE before == c.buf \o reply
             now == r.buf \o rest
  <1>1. now = before
    BY DEF SameJoin
  <1>2. r.pc = "chunk" => \E m \in 1 .. Len(ans.chunks) : InChunk(r, rest, ans.chunks, m)
    <2> SUFFICES ASSUME r.pc = "chunk" PROVE \E m \in 1 .. Len(ans.chunks) : InChunk(r, rest, ans.chunks, m)
      OBVIOUS
    <2>1. PICK m \in 1 .. Len(ans.chunks) : InChunk(c, reply, ans.chunks, m)
      BY DEF Comes
    <2>2. InChunk(r, rest, ans.chunks, m)
      BY <2>1, SameChunk
    <2>3. QED
      BY <2>2
  <1>3. r.pc = "size" => \E m \in 0 .. Len(ans.chunks) : BeforeChunk(r, rest, ans.chunks, m)
    BY <1>1 DEF Comes, BeforeChunk, BodySoFar
  <1>4. /\ r.pc \in Early \cup {"headers_in"} =>
             IF ans = NoAnswer THEN now = <<>> \/ (interim /\ now = <<Cont>>)
             ELSE Starts(now, Encode(ans)) \/ Starts(now, <<Cont>> \o Encode(ans))
        /\ r.pc \in {"length", "close"} =>
             ans.framing = r.pc /\ Starts(now, Body(ans.chunks)) /\ r.body = <<>>
    BY <1>1 DEF Comes
  <1>5. /\ r.pc \in Early => r.buf = <<>>
        /\ r.pc \in Early \cup {"headers_in"} => r.body = <<>>
        /\ r.pc \in Reads => ans # NoAnswer
        /\ r.pc = "length" => r.left + Len(r.buf) = Total(ans.chunks) /\ r.left > 0
        /\ r.pc \in {"size", "chunk", "last"} => ans.framing = "chunked"
        /\ r.pc = "chunk" => r.left + Len(r.buf) = r.chunk + 2 /\ r.left > 0
        /\ r.pc = "last" => r.body = Body(ans.chunks)
    BY DEF Comes
  <1>6. QED
    BY <1>2, <1>3, <1>4, <1>5 DEF Comes

(* What the handlers make of the call keeps the invariant.                 *)
LEMMA HandledStep ==
  ASSUME CallInv, NEW c, c.kind = call.kind, Handled(call', c, line'.reply),
         line' \in Lines, line'.wire = line.wire, server' = server
  PROVE  CallInv'
  <1>1. /\ call' \in Calls /\ call'.kind = call.kind /\ call'.pc \notin Early
        /\ Comes(call', line'.reply, server'.ans, server'.interim) /\ Told(call', server'.ans)
    BY DEF Handled
  <1>2. HttpTyped'
    BY <1>1 DEF CallInv, HttpTyped
  <1>3. Unsent(call', line'.wire)
    BY <1>1 DEF Unsent, Early
  <1>4. Answered(call', line'.wire, server'.ans)
    BY <1>1 DEF CallInv, Answered
  <1>5. QED
    BY <1>1, <1>2, <1>3, <1>4 DEF CallInv

LEMMA ReadSizeStep ==
  ASSUME CallInv, ReadSize
  PROVE  CallInv'
  <1> DEFINE c == [call EXCEPT !.chunk = Head(call.buf)[2], !.buf = Tail(@), !.left = 0]
             N == Len(server.ans.chunks)
  <1>1. call \in Calls /\ line \in Lines /\ line.reply \in Seq(Answerable) /\ Chunky
    BY DEF CallInv, HttpTyped, Lines, ReadSize, Pc, Comes, Reads, Chunky, Codes
  <1>2. PICK m \in 0 .. N : BeforeChunk(call, line.reply, server.ans.chunks, m)
    BY DEF CallInv, ReadSize, Pc, Comes
  <1>3. c = [call EXCEPT !.chunk = Head(call.buf)[2], !.buf = Tail(call.buf), !.left = 0] /\ c.kind = call.kind
    BY <1>1 DEF Calls
  <1>4. call' = (IF c.chunk = 0 THEN LastChunk(c) ELSE WaitChunk(c)) /\ call.buf # <<>>
    BY DEF ReadSize
  <1>5. line' = line /\ server' = server
    BY DEF ReadSize
  <1> HIDE DEF c
  <1>6. Handled(call', call, line'.reply)
    BY <1>1, <1>2, <1>3, <1>4, <1>5, SizeHandled
  <1>7. QED
    BY <1>1, <1>5, <1>6, HandledStep

LEMMA EndsHandled ==
  ASSUME NEW c \in Calls, c.pc \in Reads \cup {"headers_in"}, NEW reply \in Seq(Answerable),
         server.ans \in {NoAnswer} \cup Answers(Codes),
         Comes(c, reply, server.ans, server.interim)
  PROVE  Handled(Ends(c), c, reply)
  <1>1. CASE c.pc = "headers_in"
    <2>1. Handled(ReadHeaders(c), c, reply) /\ Handled(Failed(c), c, reply)
      BY <1>1, ReadHeadersHandled, FailedHandled
    <2>2. QED
      BY <1>1, <2>1 DEF Ends
  <1>2. CASE c.pc = "last"
    <2>1. server.ans \in Answers(Codes) /\ c.body = Body(server.ans.chunks)
      BY <1>2 DEF Comes, Reads
    <2>2. Handled(Returned(c), c, reply)
      BY <2>1, WholeBody
    <2>3. QED
      BY <1>2, <2>2 DEF Ends
  <1>3. CASE c.pc = "close"
    <2>1. /\ server.ans \in Answers(Codes) /\ server.ans.framing = "close"
          /\ Starts(c.buf \o reply, Body(server.ans.chunks))
      BY <1>3 DEF Comes, Reads
    <2>2. Handled(Returned(Flushed(c)), c, reply)
      BY <2>1, BufferIsBody
    <2>3. QED
      BY <1>3, <2>2 DEF Ends
  <1>4. CASE c.pc \in {"length", "size", "chunk"}
    <2>1. Ends(c) = Failed(c)
      BY <1>4 DEF Ends
    <2>2. QED
      BY <2>1, FailedHandled
  <1>5. QED
    BY <1>1, <1>2, <1>3, <1>4 DEF Reads

(* Nothing was read: only what the code remembers of the call has changed. *)
LEMMA NothingRead ==
  ASSUME CallInv, Reading, NEW c \in Calls, c.pc = call.pc, c.kind = call.kind, c.buf = call.buf,
         c.body = call.body, c.chunk = call.chunk, c.left = Left
  PROVE  /\ c.pc \in Reads \cup {"headers_in"}
         /\ Comes(c, line.reply, server.ans, server.interim)
  <1>1. call \in Calls /\ line.reply \in Seq(Answerable) /\ Comes(call, line.reply, server.ans, server.interim)
    BY DEF CallInv, HttpTyped, Lines
  <1>2. c.pc \in {"length", "chunk"} => c.left = call.left /\ c.left > 0
    <2>1. call.pc \in {"length", "chunk"} => call.left > 0
      BY <1>1 DEF Comes
    <2>2. QED
      BY <2>1 DEF Left
  <1>3. c.pc \in Reads \cup {"headers_in"} /\ c.pc \notin Early
    BY DEF Reading, Reads, Early, Pc
  <1>4. Comes(c, line.reply, server.ans, server.interim)
    BY <1>1, <1>2, <1>3, SameComing DEF SameJoin
  <1>5. QED
    BY <1>3, <1>4

(* What the code remembers of a read besides the buffer.                   *)
Remembers(r, c, l) ==
  /\ r \in Calls /\ r.pc = c.pc /\ r.kind = c.kind /\ r.buf = c.buf
  /\ r.body = c.body /\ r.chunk = c.chunk /\ r.left = l

LEMMA ReadTyped ==
  ASSUME NEW c \in Calls, NEW l \in Nat, NEW k \in Int, NEW i \in Nat,
         NEW e \in {"none", "host", "again", "other", "intr"}
  PROVE  Remembers([c EXCEPT !.error = e, !.left = l, !.last = k, !.intr = i], c, l)
  BY ZenonT(40) DEF Calls, Remembers

LEMMA LeftTyped ==
  ASSUME call \in Calls
  PROVE  Left \in Nat
  BY HttpAssumption DEF HttpAssumption, Calls, Left

LEMMA ReadEndStep ==
  ASSUME CallInv, ReadEnd
  PROVE  CallInv'
  <1> DEFINE c == [call EXCEPT !.left = Left, !.last = 0]
  <1>1. /\ call \in Calls /\ line \in Lines /\ line.reply \in Seq(Answerable)
        /\ server.ans \in {NoAnswer} \cup Answers(Codes)
    BY DEF CallInv, HttpTyped, Lines, Codes
  <1>2. Left \in Nat
    BY <1>1, LeftTyped
  <1>3. /\ c \in Calls /\ c.pc = call.pc /\ c.kind = call.kind /\ c.buf = call.buf
        /\ c.body = call.body /\ c.chunk = call.chunk /\ c.left = Left
    <2>1. c = [call EXCEPT !.error = call.error, !.left = Left, !.last = 0, !.intr = call.intr]
      BY <1>1 DEF Calls
    <2>2. 0 \in Int /\ call.intr \in Nat /\ call.error \in {"none", "host", "again", "other", "intr"}
      BY <1>1 DEF Calls
    <2>3. Remembers([call EXCEPT !.error = call.error, !.left = Left, !.last = 0, !.intr = call.intr], call, Left)
      BY <1>1, <1>2, <2>2, ReadTyped
    <2> HIDE DEF c
    <2>4. QED
      BY <2>1, <2>3 DEF Remembers
  <1>4. Reading /\ call' = Ends(c) /\ line' = line /\ server' = server
    BY DEF ReadEnd
  <1> HIDE DEF c
  <1>5. c.pc \in Reads \cup {"headers_in"} /\ Comes(c, line.reply, server.ans, server.interim)
    BY <1>3, <1>4, NothingRead
  <1>6. Handled(call', c, line'.reply)
    BY <1>1, <1>3, <1>4, <1>5, EndsHandled
  <1>7. QED
    BY <1>1, <1>3, <1>4, <1>6, HandledStep

LEMMA ReadFailsStep ==
  ASSUME CallInv, NEW error \in {"again", "other"}, ReadFails(error)
  PROVE  CallInv'
  <1> DEFINE c == [call EXCEPT !.error = error, !.left = Left, !.last = -1]
  <1>1. call \in Calls /\ line \in Lines
    BY DEF CallInv, HttpTyped
  <1>2. Left \in Nat
    BY <1>1, LeftTyped
  <1>3. c \in Calls /\ c.kind = call.kind
    <2>1. c = [call EXCEPT !.error = error, !.left = Left, !.last = -1, !.intr = call.intr]
      BY <1>1 DEF Calls
    <2>2. -1 \in Int /\ call.intr \in Nat /\ error \in {"none", "host", "again", "other", "intr"}
      BY <1>1 DEF Calls
    <2>3. Remembers([call EXCEPT !.error = error, !.left = Left, !.last = -1, !.intr = call.intr], call, Left)
      BY <1>1, <1>2, <2>2, ReadTyped
    <2> HIDE DEF c
    <2>4. QED
      BY <2>1, <2>3 DEF Remembers
  <1>4. call' = Failed(c) /\ line' = line /\ server' = server
    BY DEF ReadFails
  <1> HIDE DEF c
  <1>5. Handled(call', c, line'.reply)
    BY <1>3, <1>4, FailedHandled
  <1>6. QED
    BY <1>1, <1>3, <1>4, <1>5, HandledStep

LEMMA ReadInterruptedStep ==
  ASSUME CallInv, ReadInterrupted
  PROVE  CallInv'
  <1> DEFINE c == [call EXCEPT !.error = "intr", !.left = Left, !.last = -1, !.intr = @ + 1]
  <1>1. /\ call \in Calls /\ line \in Lines /\ line.reply \in Seq(Answerable)
        /\ server.ans \in {NoAnswer} \cup Answers(Codes)
    BY DEF CallInv, HttpTyped, Lines, Codes
  <1>2. Left \in Nat
    BY <1>1, LeftTyped
  <1>3. /\ c \in Calls /\ c.pc = call.pc /\ c.kind = call.kind /\ c.buf = call.buf
        /\ c.body = call.body /\ c.chunk = call.chunk /\ c.left = Left
    <2>1. c = [call EXCEPT !.error = "intr", !.left = Left, !.last = -1, !.intr = call.intr + 1]
      BY <1>1 DEF Calls
    <2>2. -1 \in Int /\ call.intr + 1 \in Nat /\ "intr" \in {"none", "host", "again", "other", "intr"}
      BY <1>1 DEF Calls
    <2>3. Remembers([call EXCEPT !.error = "intr", !.left = Left, !.last = -1, !.intr = call.intr + 1], call, Left)
      BY <1>1, <1>2, <2>2, ReadTyped
    <2> HIDE DEF c
    <2>4. QED
      BY <2>1, <2>3 DEF Remembers
  <1>4. /\ Reading /\ call' = (IF call.pc = "headers_in" THEN ReadHeaders(c) ELSE c)
        /\ line' = line /\ server' = server
    BY DEF ReadInterrupted, Pc
  <1> HIDE DEF c
  <1>5. c.pc \in Reads \cup {"headers_in"} /\ Comes(c, line.reply, server.ans, server.interim)
    BY <1>3, <1>4, NothingRead
  <1>6. CASE c.pc = "headers_in"
    <2>1. Handled(call', c, line'.reply)
      BY <1>1, <1>3, <1>4, <1>5, <1>6, ReadHeadersHandled
    <2>2. QED
      BY <1>1, <1>3, <1>4, <2>1, HandledStep
  <1>7. CASE c.pc \in Reads
    <2>1. c.pc # "headers_in" /\ c.pc \notin Early /\ c.pc # "returned"
      BY <1>7 DEF Reads, Early
    <2>2. call' = c
      BY <1>3, <1>4, <2>1
    <2>3. Handled(call', c, line'.reply)
      BY <1>3, <1>4, <1>5, <2>1, <2>2 DEF Handled, Told
    <2>4. QED
      BY <1>1, <1>3, <1>4, <2>3, HandledStep
  <1>8. QED
    BY <1>5, <1>6, <1>7

(* n units more are in the buffer.                                         *)
ReadOn(c, n) ==
  [c EXCEPT !.buf = c.buf \o SubSeq(line.reply, 1, n), !.left = Left - n, !.last = n]
Rest(n) == SubSeq(line.reply, n + 1, Len(line.reply))

BufferNow(r, c, b, l) ==
  /\ r \in Calls /\ r.pc = c.pc /\ r.kind = c.kind /\ r.buf = b
  /\ r.body = c.body /\ r.chunk = c.chunk /\ r.left = l

LEMMA BufferTyped ==
  ASSUME NEW c \in Calls, NEW b \in Seq(Answerable), NEW l \in Nat, NEW k \in Int
  PROVE  BufferNow([c EXCEPT !.buf = b, !.left = l, !.last = k], c, b, l)
  BY ZenonT(40) DEF Calls, BufferNow

LEMMA ReadMore ==
  ASSUME CallInv, NEW n \in 1 .. Len(line.reply), n <= MinOf(Left, ReadMax)
  PROVE  /\ BufferNow(ReadOn(call, n), call, call.buf \o SubSeq(line.reply, 1, n), Left - n)
         /\ SameJoin(ReadOn(call, n).buf, Rest(n), call.buf, line.reply)
         /\ Rest(n) \in Seq(Answerable)
         /\ Len(ReadOn(call, n).buf) = Len(call.buf) + n /\ Len(call.buf) \in Nat
  <1> DEFINE reply == line.reply
             buf == call.buf
             b == buf \o SubSeq(reply, 1, n)
             c == ReadOn(call, n)
  <1>1. call \in Calls /\ reply \in Seq(Answerable) /\ buf \in Seq(Answerable)
    BY DEF CallInv, HttpTyped, Lines, Calls
  <1>2. Left - n \in Nat /\ n \in Int
    <2>1. Left \in Nat /\ n \in Nat /\ ReadMax \in Nat
      BY <1>1, LeftTyped, HttpAssumption DEF HttpAssumption
    <2>2. n <= Left
      BY <2>1 DEF MinOf
    <2>3. QED
      BY <2>1, <2>2
  <1> HIDE DEF reply, buf
  <1>3. n \in 0 .. Len(reply)
    BY <1>1 DEF reply
  <1>4. /\ b \in Seq(Answerable) /\ SubSeq(reply, n + 1, Len(reply)) \in Seq(Answerable)
        /\ b \o SubSeq(reply, n + 1, Len(reply)) = buf \o reply
    BY ZenonT(60), <1>1, <1>3, Moved
  <1>5. Len(b) = Len(buf) + n /\ Len(buf) \in Nat
    <2>1. SubSeq(reply, 1, n) \in Seq(Answerable) /\ Len(SubSeq(reply, 1, n)) = n
      BY <1>1, <1>3
    <2>2. QED
      BY <1>1, <2>1, ConcatProperties
  <1> HIDE DEF b
  <1>6. BufferNow([call EXCEPT !.buf = b, !.left = Left - n, !.last = n], call, b, Left - n)
    BY <1>1, <1>2, <1>4, BufferTyped
  <1>7. c = [call EXCEPT !.buf = b, !.left = Left - n, !.last = n]
    BY DEF ReadOn, b, buf, reply
  <1> HIDE DEF c
  <1>8. BufferNow(c, call, b, Left - n)
    BY <1>6, <1>7
  <1>9. c.buf = b
    BY <1>8 DEF BufferNow
  <1>10. SameJoin(c.buf, SubSeq(reply, n + 1, Len(reply)), buf, reply)
    BY <1>4, <1>9 DEF SameJoin
  <1>11. QED
    BY <1>4, <1>5, <1>8, <1>9, <1>10 DEF c, b, buf, reply, Rest

LEMMA ReadStep ==
  ASSUME CallInv, NEW n \in 1 .. Len(line.reply), Read(n)
  PROVE  CallInv'
  <1> DEFINE c == ReadOn(call, n)
             rest == Rest(n)
             ans == server.ans
             cs == server.ans.chunks
  <1>1. /\ Reading /\ n <= MinOf(Left, ReadMax) /\ server' = server
        /\ line' = [line EXCEPT !.reply = rest]
    BY DEF Read, Rest
  <1>2. /\ call \in Calls /\ line \in Lines /\ line.reply \in Seq(Answerable)
        /\ ans \in {NoAnswer} \cup Answers(Codes)
        /\ Comes(call, line.reply, ans, server.interim)
    BY DEF CallInv, HttpTyped, Lines, Codes
  <1>3. /\ c \in Calls /\ c.pc = call.pc /\ c.kind = call.kind /\ c.left = Left - n
        /\ c.body = call.body /\ c.chunk = call.chunk
        /\ Len(c.buf) = Len(call.buf) + n /\ Len(call.buf) \in Nat
        /\ rest \in Seq(Answerable) /\ SameJoin(c.buf, rest, call.buf, line.reply)
    BY <1>1, ReadMore DEF BufferNow
  <1>4. call' = CASE call.pc = "headers_in" -> ReadHeaders(c)
                  [] call.pc = "length" -> IF c.left = 0 THEN Returned(Flushed(c)) ELSE c
                  [] call.pc = "chunk" -> IF c.left = 0 THEN TakeChunk(c) ELSE c
                  [] call.pc = "last" -> IF c.left = 0 THEN Returned(c) ELSE c
                  [] call.pc \in {"size", "close"} -> c
    BY DEF Read, ReadOn, Pc
  <1> HIDE DEF c, rest
  <1>5. line' \in Lines /\ line'.wire = line.wire /\ line'.reply = rest
    BY <1>1, <1>2, <1>3 DEF Lines
  <1>6. c.pc \in Reads \cup {"headers_in"} /\ c.pc \notin Early /\ c.pc # "returned"
    BY <1>1, <1>3 DEF Reading, Reads, Early, Pc
  <1>7. /\ c.pc \in {"length", "chunk"} => call.left > 0 /\ c.left + Len(c.buf) = call.left + Len(call.buf)
        /\ c.left \in Nat
    <2>1. call.left \in Nat /\ n \in Nat /\ c.left \in Nat
      BY <1>2, <1>3 DEF Calls
    <2>2. c.pc \in {"length", "chunk"} => call.left > 0
      BY <1>2, <1>3 DEF Comes
    <2>3. call.left > 0 => Left = call.left
      BY DEF Left
    <2>4. QED
      BY <1>3, <2>1, <2>2, <2>3
  <1>8. ASSUME c.pc \in {"length", "chunk"} => c.left # 0
        PROVE  Comes(c, rest, ans, server.interim)
    <2>1. c.pc \in {"length", "chunk"} => c.left > 0
      BY <1>7, <1>8
    <2>2. QED
      BY <1>2, <1>3, <1>6, <1>7, <2>1, SameComing
  <1>9. ASSUME call' = c, c.pc \in {"length", "chunk"} => c.left # 0
        PROVE  Handled(call', c, rest)
    <2>1. Comes(c, rest, ans, server.interim) /\ Told(c, ans)
      BY <1>6, <1>8, <1>9 DEF Told
    <2>2. QED
      BY <1>3, <1>6, <1>9, <2>1 DEF Handled
  <1>10. Handled(call', c, rest)
    <2>1. CASE c.pc = "headers_in"
      <3>1. Comes(c, rest, ans, server.interim)
        BY <1>8, <2>1
      <3>2. Handled(ReadHeaders(c), c, rest)
        BY <1>2, <1>3, <2>1, <3>1, ReadHeadersHandled
      <3>3. QED
        BY <1>3, <1>4, <2>1, <3>2
    <2>2. CASE c.pc = "length"
      <3>1. call' = IF c.left = 0 THEN Returned(Flushed(c)) ELSE c
        BY <1>3, <1>4, <2>2
      <3>2. CASE c.left = 0
        <4>1. /\ ans \in Answers(Codes) /\ Starts(call.buf \o line.reply, Body(cs))
              /\ call.left + Len(call.buf) = Total(cs)
          BY <1>2, <1>3, <2>2 DEF Comes, Reads
        <4>2. Starts(c.buf \o rest, Body(cs))
          BY <1>3, <4>1 DEF SameJoin
        <4>3. Len(c.buf) >= Total(cs)
          <5>1. c.left + Len(c.buf) = Total(cs) /\ Len(c.buf) \in Nat
            BY <1>3, <1>7, <2>2, <4>1 DEF Calls
          <5>2. QED
            BY <3>2, <5>1
        <4>4. Handled(Returned(Flushed(c)), c, rest)
          BY <1>3, <4>1, <4>2, <4>3, BufferIsBody
        <4>5. QED
          BY <3>1, <3>2, <4>4
      <3>3. CASE c.left # 0
        BY <1>9, <3>1, <3>3
      <3>4. QED
        BY <3>2, <3>3
    <2>3. CASE c.pc = "chunk"
      <3>1. call' = IF c.left = 0 THEN TakeChunk(c) ELSE c
        BY <1>3, <1>4, <2>3
      <3>2. CASE c.left = 0
        <4>1. Chunky /\ call.left + Len(call.buf) = call.chunk + 2
          BY <1>2, <1>3, <2>3 DEF Comes, Reads, Chunky
        <4>2. PICK m \in 1 .. Len(cs) : InChunk(call, line.reply, cs, m)
          BY <1>2, <1>3, <2>3 DEF Comes
        <4>3. InChunk(c, rest, cs, m)
          BY <1>2, <1>3, <4>2, SameChunk
        <4>4. Len(c.buf) >= c.chunk + 2
          <5>1. c.left + Len(c.buf) = c.chunk + 2 /\ Len(c.buf) \in Nat
            BY <1>3, <1>7, <2>3, <4>1 DEF Calls
          <5>2. c.chunk \in Nat
            BY <1>3 DEF Calls
          <5>3. QED
            BY <3>2, <5>1, <5>2
        <4>5. Handled(TakeChunk(c), c, rest)
          BY <1>3, <4>1, <4>3, <4>4, TakeChunkHandled
        <4>6. QED
          BY <3>1, <3>2, <4>5
      <3>3. CASE c.left # 0
        BY <1>9, <3>1, <3>3
      <3>4. QED
        BY <3>2, <3>3
    <2>4. CASE c.pc = "last"
      <3>1. call' = IF c.left = 0 THEN Returned(c) ELSE c
        BY <1>3, <1>4, <2>4
      <3>2. CASE c.left = 0
        <4>1. ans \in Answers(Codes) /\ c.body = Body(cs)
          BY <1>2, <1>3, <2>4 DEF Comes, Reads
        <4>2. Handled(Returned(c), c, rest)
          BY <1>3, <4>1, WholeBody
        <4>3. QED
          BY <3>1, <3>2, <4>2
      <3>3. CASE c.left # 0
        BY <1>9, <2>4, <3>1, <3>3
      <3>4. QED
        BY <3>2, <3>3
    <2>5. CASE c.pc \in {"size", "close"}
      <3>1. call' = c
        BY <1>3, <1>4, <2>5
      <3>2. QED
        BY <1>9, <2>5, <3>1
    <2>6. QED
      BY <1>6, <2>1, <2>2, <2>3, <2>4, <2>5 DEF Reads
  <1>11. QED
    BY <1>1, <1>3, <1>5, <1>10, HandledStep

-----------------------------------------------------------------------------
(* The steps that write.                                                   *)
UpTo(n, g) == g = [p \in 0 .. n |-> IF p = 0 THEN <<Line, Headers>> ELSE g[p-1] \o Units(p, 0, Parts[p])]

LEMMA UpToExists ==
  ASSUME NEW n \in Nat
  PROVE  \E g : UpTo(n, g)
  <1> DEFINE S == {k \in Nat : \E g : UpTo(k, g)}
             Next1(g, p) == IF p = 0 THEN <<Line, Headers>> ELSE g[p-1] \o Units(p, 0, Parts[p])
  <1>1. 0 \in S
    <2> DEFINE g == [p \in 0 .. 0 |-> <<Line, Headers>>]
    <2>1. UpTo(0, g)
      BY DEF UpTo
    <2>2. QED
      BY <2>1
  <1>2. ASSUME NEW k \in S PROVE k + 1 \in S
    <2>1. PICK g : UpTo(k, g)
      OBVIOUS
    <2> DEFINE h == [p \in 0 .. k + 1 |-> Next1(g, p)]
    <2>2. h = [p \in 0 .. k + 1 |-> Next1(g, p)] /\ g = [p \in 0 .. k |-> Next1(g, p)] /\ k \in Nat
      BY <2>1 DEF UpTo
    <2> HIDE DEF h
    <2>3. \A p \in 0 .. k : h[p] = g[p]
      <3> HIDE DEF Next1
      <3>1. QED
        BY <2>2
    <2>4. \A p \in 0 .. k + 1 : p # 0 => h[p-1] = g[p-1]
      <3> HIDE DEF Next1
      <3>1. QED
        BY <2>2, <2>3
    <2>5. \A p \in 0 .. k + 1 : Next1(h, p) = Next1(g, p)
      BY <2>4
    <2>6. h = [p \in 0 .. k + 1 |-> Next1(h, p)]
      <3> HIDE DEF Next1
      <3>1. QED
        BY <2>2, <2>5
    <2>7. UpTo(k + 1, h)
      BY <2>6 DEF UpTo
    <2>8. k + 1 \in Nat
      BY <2>2
    <2>9. QED
      BY <2>7, <2>8
  <1> HIDE DEF S
  <1>3. S = Nat
    BY <1>1, <1>2, Induction DEF S
  <1>4. QED
    BY <1>3 DEF S

LEMMA PartsAre ==
  /\ Len(Parts) \in Nat /\ Len(Parts) > 0
  /\ \A p \in 1 .. Len(Parts) : Parts[p] \in Nat /\ Parts[p] > 0
  /\ Piece \in Nat /\ Piece > 0
  <1>1. Parts \in Seq(Nat \ {0}) /\ Parts # <<>> /\ Piece \in Nat \ {0}
    BY HttpAssumption DEF HttpAssumption
  <1>2. Len(Parts) \in Nat \ {0}
    BY <1>1, EmptySeq
  <1>3. \A p \in 1 .. Len(Parts) : Parts[p] \in Nat \ {0}
    BY <1>1, ElementOfSeq
  <1>4. QED
    BY <1>1, <1>2, <1>3

LEMMA UpToPartIs ==
  /\ UpToPart[0] = <<Line, Headers>>
  /\ \A p \in 1 .. Len(Parts) : UpToPart[p] = UpToPart[p-1] \o Units(p, 0, Parts[p])
  /\ \A p \in 0 .. Len(Parts) : UpToPart[p] \in Seq(Sendable)
  <1> DEFINE n == Len(Parts)
             u == CHOOSE g : UpTo(n, g)
  <1>0. n \in Nat
    BY PartsAre
  <1>1. UpTo(n, u)
    BY <1>0, UpToExists
  <1>2. UpToPart = u
    BY DEF UpToPart, UpTo
  <1> HIDE DEF u
  <1>3. /\ u[0] = <<Line, Headers>>
        /\ \A p \in 1 .. n : u[p] = u[p-1] \o Units(p, 0, Parts[p])
    <2> DEFINE Joined(p) == IF p = 0 THEN <<Line, Headers>> ELSE u[p-1] \o Units(p, 0, Parts[p])
    <2>1. u = [p \in 0 .. n |-> Joined(p)]
      BY <1>1 DEF UpTo
    <2> HIDE DEF Joined, n
    <2>2. u[0] = Joined(0) /\ \A p \in 1 .. n : u[p] = Joined(p)
      BY <1>0, <2>1
    <2>3. \A p \in 1 .. n : p # 0
      BY <1>0
    <2>4. QED
      BY <2>2, <2>3 DEF Joined
  <1> DEFINE S == {k \in Nat : k <= n => u[k] \in Seq(Sendable)}
  <1>4. 0 \in S
    <2>1. <<Line, Headers>> \in Seq(Sendable)
      BY TokensTyped
    <2>2. QED
      BY <1>3, <2>1
  <1>5. ASSUME NEW k \in S PROVE k + 1 \in S
    <2> SUFFICES ASSUME k + 1 <= n PROVE u[k + 1] \in Seq(Sendable)
      OBVIOUS
    <2>1. k + 1 \in 1 .. n /\ k <= n /\ (k + 1) - 1 = k /\ k + 1 \in Nat
      BY <1>0
    <2>2. Parts[k + 1] \in Nat
      BY <2>1, PartsAre
    <2>3. u[k] \in Seq(Sendable) /\ Units(k + 1, 0, Parts[k + 1]) \in Seq(Sendable)
      BY <2>1, <2>2, UnitsTyped
    <2>4. u[k + 1] = u[k] \o Units(k + 1, 0, Parts[k + 1])
      BY <1>3, <2>1
    <2>5. QED
      BY <2>3, <2>4, ConcatProperties
  <1> HIDE DEF S
  <1>6. S = Nat
    BY <1>4, <1>5, Induction DEF S
  <1>7. \A p \in 0 .. n : u[p] \in Seq(Sendable)
    BY <1>6 DEF S
  <1>8. QED
    BY <1>2, <1>3, <1>7

LEMMA LastOfJoin ==
  ASSUME NEW S, NEW a \in Seq(S), NEW b \in Seq(S), Len(b) > 0
  PROVE  Len(a \o b) \in 1 .. Len(a \o b) /\ (a \o b)[Len(a \o b)] = b[Len(b)]
  <1> DEFINE ab == a \o b
  <1>1. /\ Len(ab) = Len(a) + Len(b) /\ Len(a) \in Nat /\ Len(b) \in Nat
        /\ \A i \in 1 .. Len(a) + Len(b) : ab[i] = IF i <= Len(a) THEN a[i] ELSE b[i - Len(a)]
    BY ConcatProperties
  <1> HIDE DEF ab
  <1>2. /\ Len(ab) \in 1 .. Len(a) + Len(b) /\ ~(Len(ab) <= Len(a)) /\ Len(ab) - Len(a) = Len(b)
        /\ Len(ab) \in 1 .. Len(ab)
    BY <1>1
  <1>3. ab[Len(ab)] = b[Len(b)]
    BY <1>1, <1>2
  <1>4. QED
    BY <1>2, <1>3 DEF ab

(* The last unit of a request is in it.                                    *)
LEMMA RequestNotLacking ==
  ASSUME NEW kind, NEW wire, Lacks(wire, LastUnit(kind))
  PROVE  wire # Request(kind)
  <1> DEFINE r == Request(kind)
             P == Len(Parts)
             x == Units(P, 0, Parts[P])
  <1>1. \E i \in 1 .. Len(r) : r[i] = LastUnit(kind)
    <2>1. CASE kind = "upload"
      <3>0. P \in 1 .. P /\ P \in 0 .. P /\ P - 1 \in 0 .. P /\ P \in Nat /\ Parts[P] \in Nat /\ Parts[P] > 0
        BY PartsAre
      <3>1. r = UpToPart[P-1] \o x /\ UpToPart[P-1] \in Seq(Sendable)
        BY <2>1, <3>0, UpToPartIs DEF Request
      <3>2. x \in Seq(Sendable) /\ Len(x) = Parts[P] /\ \A k \in 1 .. Parts[P] : x[k] = <<"body", P, 0 + k>>
        BY <3>0, UnitsTyped
      <3>3. x[Len(x)] = <<"body", P, Parts[P]>>
        <4> HIDE DEF P, x
        <4>1. Parts[P] \in 1 .. Parts[P] /\ 0 + Parts[P] = Parts[P]
          BY <3>0
        <4>2. QED
          BY <3>2, <4>1
      <3> HIDE DEF r, x, P
      <3>4. Len(r) \in 1 .. Len(r) /\ r[Len(r)] = x[Len(x)]
        BY <3>0, <3>1, <3>2, LastOfJoin
      <3>5. LastUnit(kind) = <<"body", P, Parts[P]>>
        BY <2>1 DEF LastUnit, P
      <3>6. QED
        BY <3>3, <3>4, <3>5
    <2>2. CASE kind # "upload"
      <3>1. r = <<Line, Headers>> /\ LastUnit(kind) = Headers
        BY <2>2, UpToPartIs DEF Request, LastUnit
      <3> HIDE DEF r
      <3>2. Len(r) = 2 /\ r[2] = Headers
        BY <3>1
      <3>3. QED
        BY <3>1, <3>2
    <2>3. QED
      BY <2>1, <2>2
  <1>2. QED
    BY <1>1 DEF Lacks

LEMMA LacksMore ==
  ASSUME NEW a \in Seq(Sendable), NEW b \in Seq(Sendable), NEW u, Lacks(a, u), Lacks(b, u)
  PROVE  Lacks(a \o b, u)
  <1> DEFINE ab == a \o b
  <1>1. /\ Len(ab) = Len(a) + Len(b) /\ Len(a) \in Nat /\ Len(b) \in Nat
        /\ \A i \in 1 .. Len(a) + Len(b) : ab[i] = IF i <= Len(a) THEN a[i] ELSE b[i - Len(a)]
    BY ConcatProperties
  <1> HIDE DEF ab
  <1>2. ASSUME NEW i \in 1 .. Len(ab) PROVE ab[i] # u
    <2>1. i <= Len(a) => i \in 1 .. Len(a)
      BY <1>1
    <2>2. i > Len(a) => i - Len(a) \in 1 .. Len(b)
      BY <1>1
    <2>3. ab[i] = IF i <= Len(a) THEN a[i] ELSE b[i - Len(a)]
      BY <1>1
    <2>4. QED
      BY <1>1, <2>1, <2>2, <2>3 DEF Lacks
  <1>3. QED
    BY <1>2 DEF Lacks, ab

(* A handler that writes makes of the call c, with wire sent, the call r.  *)
Writes == {"line", "headers", "body"}

Wrote(r, c, wire) ==
  /\ r \in Calls /\ r.kind = c.kind /\ r.buf = <<>> /\ r.body = <<>>
  /\ r.pc \in Writes \cup {"headers_in", "returned"}
  /\ r.pc = "returned" => r.ret \in {"timeout", "fail"}
  /\ Unsent(r, wire)

PieceLeft(c) ==
  /\ c.kind = "upload" /\ c.part \in 1 .. Len(Parts) /\ c.offset < Parts[c.part]
  /\ LET end == MinOf(c.offset + Piece, Parts[c.part]) IN
     \E a \in c.offset .. end - 1 : c.out = Units(c.part, a, end - a)

LEMMA FailedWrote ==
  ASSUME NEW c \in Calls, c.buf = <<>>, c.body = <<>>, NEW wire
  PROVE  Wrote(Failed(c), c, wire)
  <1> DEFINE r == Failed(c)
  <1>1. /\ r \in Calls /\ r.kind = c.kind /\ r.pc = "returned" /\ r.ret \in {"timeout", "fail"}
        /\ r.buf = c.buf /\ r.body = c.body
    BY DEF Failed, Calls, CallPlaces
  <1> HIDE DEF r
  <1>2. Unsent(r, wire)
    BY <1>1 DEF Unsent
  <1>3. QED
    BY <1>1, <1>2 DEF Wrote, r

LEMMA NextPieceWrote ==
  ASSUME NEW c \in Calls, c.buf = <<>>, c.body = <<>>, c.kind = "upload",
         NEW part \in 1 .. Len(Parts), NEW offset \in Nat, offset < Parts[part],
         NEW wire, Lacks(wire, LastUnit(c.kind))
  PROVE  Wrote(NextPiece(c, part, offset), c, wire)
  <1> DEFINE P == Parts[part]
             n == MinOf(Piece, P - offset)
             out == Units(part, offset, n)
             r == NextPiece(c, part, offset)
  <1>1. P \in Nat /\ Piece \in Nat /\ Piece > 0 /\ part \in Nat /\ P - offset > 0
    <2>1. P \in Nat /\ Piece \in Nat /\ Piece > 0 /\ Len(Parts) \in Nat
      BY PartsAre
    <2>2. part \in Nat
      BY <2>1
    <2> HIDE DEF P
    <2>3. offset < P
      BY DEF P
    <2>4. QED
      BY <2>1, <2>2, <2>3
  <1>2. n \in Nat /\ n > 0 /\ MinOf(offset + Piece, P) = offset + n
    <2> HIDE DEF P
    <2>1. QED
      BY <1>1 DEF MinOf
  <1> HIDE DEF n
  <1>3. out \in Seq(Sendable)
    BY <1>1, <1>2, UnitsTyped
  <1>4. r = [c EXCEPT !.pc = "body", !.part = part, !.offset = offset, !.out = out]
    BY DEF NextPiece, n
  <1> HIDE DEF out, r
  <1>5. /\ r.pc = "body" /\ r.kind = c.kind /\ r.part = part /\ r.offset = offset /\ r.out = out
        /\ r.buf = c.buf /\ r.body = c.body
    BY <1>4 DEF Calls
  <1>6. r \in Calls
    BY <1>1, <1>3, <1>4 DEF Calls, CallPlaces, Early
  <1>7. PieceLeft(r)
    <2>1. MinOf(r.offset + Piece, Parts[r.part]) = offset + n
      BY <1>2, <1>5
    <2>2. r.out = Units(r.part, offset, (offset + n) - offset) /\ offset \in r.offset .. (offset + n) - 1
      <3>1. (offset + n) - offset = n /\ offset \in offset .. (offset + n) - 1
        BY <1>2
      <3>2. QED
        BY <1>5, <3>1 DEF out
    <2>3. r.kind = "upload" /\ r.part \in 1 .. Len(Parts) /\ r.offset < Parts[r.part]
      BY <1>5
    <2>4. QED
      BY <2>1, <2>2, <2>3 DEF PieceLeft
  <1>8. Unsent(r, wire)
    BY <1>5, <1>7 DEF Unsent, PieceLeft
  <1>9. QED
    BY <1>5, <1>6, <1>8 DEF Wrote, Writes, r

(* What is sent next: unless it is nothing, the server lacks the last unit.*)
MoreToSend(c) ==
  \/ c.pc = "line"
  \/ c.pc = "headers" /\ c.kind = "upload"
  \/ c.pc = "body" /\ (c.offset + Piece < Parts[c.part] \/ c.part < Len(Parts))

LEMMA ReadAnswerWrote ==
  ASSUME NEW c \in Calls, c.buf = <<>>, c.body = <<>>, NEW wire
  PROVE  Wrote(ReadAnswer(c), c, wire)
  <1> DEFINE r == ReadAnswer(c)
  <1>1. <<>> \in Seq(Sendable) /\ <<>> \in Seq(Answerable)
    OBVIOUS
  <1>2. /\ r \in Calls /\ r.kind = c.kind /\ r.pc = "headers_in" /\ r.buf = <<>> /\ r.body = c.body
    BY <1>1 DEF ReadAnswer, Calls, CallPlaces
  <1> HIDE DEF r
  <1>3. Unsent(r, wire)
    BY <1>2 DEF Unsent
  <1>4. QED
    BY <1>2, <1>3 DEF Wrote, r

LEMMA SentWrote ==
  ASSUME NEW c \in Calls, c.buf = <<>>, c.body = <<>>, c.pc \in Writes,
         c.pc = "body" => c.kind = "upload" /\ c.part \in 1 .. Len(Parts),
         NEW wire, MoreToSend(c) => Lacks(wire, LastUnit(c.kind))
  PROVE  Wrote(Sent(c), c, wire)
  <1>1. CASE c.pc = "line"
    <2> DEFINE r == [c EXCEPT !.pc = "headers", !.out = <<Headers>>]
    <2>1. Sent(c) = r
      BY <1>1 DEF Sent
    <2>2. <<Headers>> \in Seq(Sendable)
      BY TokensTyped
    <2>3. /\ r \in Calls /\ r.kind = c.kind /\ r.pc = "headers" /\ r.out = <<Headers>>
          /\ r.buf = c.buf /\ r.body = c.body
      BY <2>2 DEF Calls, CallPlaces, Early
    <2> HIDE DEF r
    <2>4. Lacks(wire, LastUnit(r.kind))
      BY <1>1, <2>3 DEF MoreToSend
    <2>5. Unsent(r, wire)
      BY <2>3, <2>4 DEF Unsent
    <2>6. QED
      BY <2>1, <2>3, <2>5 DEF Wrote, Writes
  <1>2. CASE c.pc = "headers" /\ c.kind = "upload"
    <2>1. Sent(c) = NextPiece(c, 1, 0)
      BY <1>2 DEF Sent
    <2>2. 1 \in 1 .. Len(Parts) /\ 0 \in Nat /\ 0 < Parts[1]
      BY PartsAre
    <2>3. Lacks(wire, LastUnit(c.kind))
      BY <1>2 DEF MoreToSend
    <2>4. QED
      BY <1>2, <2>1, <2>2, <2>3, NextPieceWrote
  <1>3. CASE c.pc = "headers" /\ c.kind # "upload"
    <2>1. Sent(c) = ReadAnswer(c)
      BY <1>3 DEF Sent
    <2>2. QED
      BY <2>1, ReadAnswerWrote
  <1>4. CASE c.pc = "body" /\ c.offset + Piece < Parts[c.part]
    <2>1. Sent(c) = NextPiece(c, c.part, c.offset + Piece)
      BY <1>4 DEF Sent
    <2>2. c.offset + Piece \in Nat
      BY PartsAre DEF Calls
    <2>3. Lacks(wire, LastUnit(c.kind))
      BY <1>4 DEF MoreToSend
    <2>4. QED
      BY <1>4, <2>1, <2>2, <2>3, NextPieceWrote
  <1>5. CASE c.pc = "body" /\ ~(c.offset + Piece < Parts[c.part]) /\ c.part < Len(Parts)
    <2>1. Sent(c) = NextPiece(c, c.part + 1, 0)
      BY <1>5 DEF Sent
    <2>2. c.part + 1 \in 1 .. Len(Parts) /\ 0 \in Nat
      BY <1>5, PartsAre
    <2>3. 0 < Parts[c.part + 1]
      BY <2>2, PartsAre
    <2>4. Lacks(wire, LastUnit(c.kind))
      BY <1>5 DEF MoreToSend
    <2>5. QED
      BY <1>5, <2>1, <2>2, <2>3, <2>4, NextPieceWrote
  <1>6. CASE c.pc = "body" /\ ~(c.offset + Piece < Parts[c.part]) /\ ~(c.part < Len(Parts))
    <2>1. Sent(c) = ReadAnswer(c)
      BY <1>6 DEF Sent
    <2>2. QED
      BY <2>1, ReadAnswerWrote
  <1>7. QED
    BY <1>1, <1>2, <1>3, <1>4, <1>5, <1>6 DEF Writes

(* What they make of the call keeps the invariant.                         *)
LEMMA WroteStep ==
  ASSUME CallInv, call.pc \in Writes \cup {"lookup"}, NEW c, c.kind = call.kind,
         Wrote(call', c, line'.wire), line' \in Lines, line'.reply = line.reply, server' = server
  PROVE  CallInv'
  <1>1. /\ call' \in Calls /\ call'.kind = call.kind /\ call'.buf = <<>> /\ call'.body = <<>>
        /\ call'.pc \in Writes \cup {"headers_in", "returned"}
        /\ call'.pc = "returned" => call'.ret \in {"timeout", "fail"}
        /\ Unsent(call', line'.wire)
    BY DEF Wrote
  <1>2. HttpTyped'
    BY <1>1 DEF CallInv, HttpTyped
  <1>3. Comes(call', line'.reply, server'.ans, server'.interim)
    <2>1. /\ call.buf = <<>> /\ LET coming == call.buf \o line.reply IN
               IF server.ans = NoAnswer THEN coming = <<>> \/ (server.interim /\ coming = <<Cont>>)
               ELSE Starts(coming, Encode(server.ans)) \/ Starts(coming, <<Cont>> \o Encode(server.ans))
      BY DEF CallInv, Comes, Writes, Early
    <2>2. call'.pc \notin Reads
      BY <1>1 DEF Writes, Reads
    <2>3. call'.buf \o line'.reply = call.buf \o line.reply
      BY <1>1, <2>1
    <2>4. QED
      BY <1>1, <2>1, <2>2, <2>3 DEF Comes, Reads
  <1>4. Told(call', server'.ans)
    BY <1>1 DEF Told
  <1>5. Answered(call', line'.wire, server'.ans)
    <2>1. Lacks(line.wire, LastUnit(call.kind))
      BY DEF CallInv, Unsent, Writes
    <2>2. line.wire # Request(call.kind)
      BY <2>1, RequestNotLacking
    <2>3. server.ans.code \notin {"200", "2xx"}
      BY <2>2 DEF CallInv, Answered
    <2>4. QED
      BY <2>3 DEF Answered
  <1>6. QED
    BY <1>1, <1>2, <1>3, <1>4, <1>5 DEF CallInv

(* What is written of a piece, and what is left of it.                     *)
LEMMA UnitsCut ==
  ASSUME NEW p \in Nat, NEW o \in Nat, NEW k \in Nat, NEW n \in 1 .. k
  PROVE  /\ SubSeq(Units(p, o, k), 1, n) = Units(p, o, n)
         /\ SubSeq(Units(p, o, k), n + 1, k) = Units(p, o + n, k - n)
  <1> DEFINE s == Units(p, o, k)
             a == Units(p, o, n)
             b == Units(p, o + n, k - n)
             x == SubSeq(s, 1, n)
             y == SubSeq(s, n + 1, k)
  <1>1. n \in Nat /\ o + n \in Nat /\ k - n \in Nat /\ n <= k
    OBVIOUS
  <1>2. s \in Seq(Sendable) /\ Len(s) = k /\ \A i \in 1 .. k : s[i] = <<"body", p, o + i>>
    BY UnitsTyped
  <1>3. a \in Seq(Sendable) /\ Len(a) = n /\ \A i \in 1 .. n : a[i] = <<"body", p, o + i>>
    BY ZenonT(60), <1>1, UnitsAre
  <1>4. b \in Seq(Sendable) /\ Len(b) = k - n /\ \A i \in 1 .. k - n : b[i] = <<"body", p, (o + n) + i>>
    BY ZenonT(60), <1>1, UnitsAre
  <1> HIDE DEF s, a, b
  <1>5. x \in Seq(Sendable) /\ Len(x) = n /\ \A i \in 1 .. n : x[i] = s[i]
    BY <1>1, <1>2
  <1>6. y \in Seq(Sendable) /\ Len(y) = k - n /\ \A i \in 1 .. k - n : y[i] = s[n + i]
    BY <1>1, <1>2
  <1> HIDE DEF x, y
  <1>7. x = a
    <2>1. ASSUME NEW i \in 1 .. n PROVE x[i] = a[i]
      <3>1. i \in 1 .. k
        BY <1>1
      <3>2. x[i] = s[i] /\ s[i] = <<"body", p, o + i>>
        BY <1>2, <1>5, <3>1
      <3>3. QED
        BY <1>3, <3>2
    <2>2. QED
      BY <1>3, <1>5, <2>1, SeqEqual
  <1>8. y = b
    <2>1. ASSUME NEW i \in 1 .. k - n PROVE y[i] = b[i]
      <3>1. n + i \in 1 .. k /\ o + (n + i) = (o + n) + i
        OBVIOUS
      <3>2. s[n + i] = <<"body", p, o + (n + i)>>
        BY <1>2, <3>1
      <3>3. QED
        BY <1>4, <1>6, <3>1, <3>2
    <2>2. QED
      BY <1>4, <1>6, <2>1, SeqEqual
  <1>9. QED
    BY <1>7, <1>8 DEF s, a, b, x, y

LEMMA UnitsLack ==
  ASSUME NEW p \in Nat, NEW o \in Nat, NEW k \in Nat,
         p # Len(Parts) \/ o + k < Parts[Len(Parts)]
  PROVE  Lacks(Units(p, o, k), LastUnit("upload"))
  <1> DEFINE s == Units(p, o, k)
             P == Parts[Len(Parts)]
  <1>1. s \in Seq(Sendable) /\ Len(s) = k /\ \A i \in 1 .. k : s[i] = <<"body", p, o + i>>
    BY UnitsTyped
  <1>2. LastUnit("upload") = <<"body", Len(Parts), P>> /\ P \in Nat
    BY PartsAre DEF LastUnit
  <1>3. p # Len(Parts) \/ o + k < P
    OBVIOUS
  <1> HIDE DEF s, P
  <1>4. ASSUME NEW i \in 1 .. k PROVE s[i] # LastUnit("upload")
    <2>1. p # Len(Parts) \/ o + i # P
      BY <1>2, <1>3
    <2>2. QED
      BY <1>1, <1>2, <2>1
  <1>5. QED
    BY <1>1, <1>4 DEF Lacks, s

LEMMA TokensLack ==
  /\ \A kind : Lacks(<<Line>>, LastUnit(kind))
  /\ Lacks(<<Headers>>, LastUnit("upload"))
  <1>1. Len(Parts) \in Nat /\ Parts[Len(Parts)] \in Nat
    BY PartsAre
  <1>2. \A kind : Line # LastUnit(kind)
    BY <1>1, TokensTyped DEF LastUnit
  <1>3. Headers # LastUnit("upload")
    BY <1>1, TokensTyped DEF LastUnit
  <1>4. \A u, v : u # v => Lacks(<<u>>, v)
    BY DEF Lacks
  <1>5. QED
    BY <1>2, <1>3, <1>4

OutNow(r, c, y) ==
  /\ r \in Calls /\ r.pc = c.pc /\ r.kind = c.kind /\ r.out = y /\ r.part = c.part
  /\ r.offset = c.offset /\ r.buf = c.buf /\ r.body = c.body

LEMMA OutTyped ==
  ASSUME NEW c \in Calls, NEW y \in Seq(Sendable), NEW k \in Int, NEW i \in Nat,
         NEW e \in {"none", "host", "again", "other", "intr"}
  PROVE  /\ OutNow([c EXCEPT !.out = y, !.last = k], c, y)
         /\ OutNow([c EXCEPT !.error = e, !.last = k], c, c.out)
         /\ OutNow([c EXCEPT !.error = e, !.last = k, !.intr = i], c, c.out)
  <1>1. OutNow([c EXCEPT !.out = y, !.last = k], c, y)
    BY ZenonT(40) DEF Calls, OutNow
  <1>2. OutNow([c EXCEPT !.error = e, !.last = k], c, c.out)
    BY ZenonT(40) DEF Calls, OutNow
  <1>3. OutNow([c EXCEPT !.error = e, !.last = k, !.intr = i], c, c.out)
    BY ZenonT(40) DEF Calls, OutNow
  <1>4. QED
    BY <1>1, <1>2, <1>3

LEMMA WritingIs ==
  ASSUME CallInv, call.pc \in Writes
  PROVE  /\ call \in Calls /\ line \in Lines /\ line.wire \in Seq(Sendable) /\ call.out \in Seq(Sendable)
         /\ call.buf = <<>> /\ call.body = <<>> /\ Lacks(line.wire, LastUnit(call.kind))
         /\ call.pc = "line" => call.out = <<Line>>
         /\ call.pc = "headers" => call.out = <<Headers>>
         /\ call.pc = "body" => PieceLeft(call)
  <1>1. call \in Calls /\ line \in Lines
    BY DEF CallInv, HttpTyped
  <1>2. line.wire \in Seq(Sendable) /\ call.out \in Seq(Sendable)
    BY <1>1 DEF Calls, Lines
  <1>3. call.buf = <<>> /\ call.body = <<>>
    BY DEF CallInv, Comes, Writes, Early
  <1>4. /\ Lacks(line.wire, LastUnit(call.kind))
        /\ call.pc = "line" => call.out = <<Line>>
        /\ call.pc = "headers" => call.out = <<Headers>>
        /\ call.pc = "body" => PieceLeft(call)
    BY DEF CallInv, Unsent, Writes, PieceLeft
  <1>5. QED
    BY <1>1, <1>2, <1>3, <1>4

(* A piece of the body: its end, and where it starts.                      *)
LEMMA PieceIs ==
  ASSUME NEW c \in Calls, PieceLeft(c)
  PROVE  \E a, end \in Nat :
           /\ end = MinOf(c.offset + Piece, Parts[c.part]) /\ end <= Parts[c.part]
           /\ (c.offset + Piece < Parts[c.part] => end < Parts[c.part])
           /\ c.offset <= a /\ a < end /\ c.out = Units(c.part, a, end - a)
           /\ c.part \in Nat /\ c.part <= Len(Parts) /\ Parts[c.part] \in Nat
  <1> DEFINE P == Parts[c.part]
             end == MinOf(c.offset + Piece, P)
  <1>1. PICK a \in c.offset .. end - 1 : c.out = Units(c.part, a, end - a)
    BY DEF PieceLeft
  <1>2. P \in Nat /\ Piece \in Nat /\ c.offset \in Nat
    BY PartsAre DEF PieceLeft, Calls
  <1>3. c.part \in Nat /\ c.part <= Len(Parts)
    BY PartsAre DEF PieceLeft
  <1>4. end \in Nat /\ end <= P /\ (c.offset + Piece < P => end < P)
    <2> HIDE DEF P
    <2>1. QED
      BY <1>2 DEF MinOf
  <1> HIDE DEF end, P
  <1>5. a \in Nat /\ c.offset <= a /\ a < end
    BY <1>1, <1>2, <1>4
  <1>6. QED
    BY <1>1, <1>2, <1>3, <1>4, <1>5 DEF end, P

LEMMA PartWritten ==
  ASSUME NEW c \in Calls, PieceLeft(c), NEW n \in 1 .. Len(c.out), n < Len(c.out),
         NEW r, OutNow(r, c, SubSeq(c.out, n + 1, Len(c.out)))
  PROVE  PieceLeft(r) /\ Lacks(SubSeq(c.out, 1, n), LastUnit(c.kind))
  <1>1. PICK a, end \in Nat :
           /\ end = MinOf(c.offset + Piece, Parts[c.part]) /\ end <= Parts[c.part]
           /\ c.offset <= a /\ a < end /\ c.out = Units(c.part, a, end - a)
           /\ c.part \in Nat /\ c.part <= Len(Parts) /\ Parts[c.part] \in Nat
    BY PieceIs
  <1> DEFINE k == end - a
             m == k - n
             p == c.part
  <1>2. k \in Nat /\ p \in Nat /\ c.out = Units(p, a, k)
    BY <1>1
  <1> HIDE DEF k, p
  <1>3. Len(c.out) = k
    <2>1. \A q \in Nat : Len(Units(q, a, k)) = k
      BY <1>2, UnitsTyped
    <2>2. QED
      BY <1>2, <2>1
  <1>4. n \in 1 .. k /\ n < k /\ n \in Nat
    BY <1>2, <1>3
  <1>a. SubSeq(Units(p, a, k), 1, n) = Units(p, a, n) /\ SubSeq(Units(p, a, k), n + 1, k) = Units(p, a + n, k - n)
    BY ZenonT(60), <1>2, <1>4, UnitsCut
  <1>5. SubSeq(c.out, 1, n) = Units(c.part, a, n) /\ SubSeq(c.out, n + 1, k) = Units(c.part, a + n, k - n)
    BY <1>2, <1>a DEF p
  <1>6. c.kind = "upload" /\ c.part \in 1 .. Len(Parts) /\ c.offset < Parts[c.part]
    BY DEF PieceLeft
  <1>7. PieceLeft(r)
    <2>1. /\ r.kind = c.kind /\ r.part = c.part /\ r.offset = c.offset
          /\ r.out = Units(c.part, a + n, k - n)
      BY <1>3, <1>5 DEF OutNow
    <2>2. a + n \in c.offset .. end - 1 /\ end - (a + n) = k - n
      <3>1. c.offset \in Nat
        BY DEF Calls
      <3>2. QED
        BY <1>1, <1>4, <3>1 DEF k
    <2>3. QED
      BY <1>1, <1>6, <2>1, <2>2 DEF PieceLeft
  <1>8. Lacks(SubSeq(c.out, 1, n), LastUnit(c.kind))
    <2>1. c.part # Len(Parts) \/ a + n < Parts[Len(Parts)]
      <3>1. a + n < end
        BY <1>1, <1>4 DEF k
      <3>2. a + n < Parts[c.part]
        BY <1>1, <1>4, <3>1
      <3>3. QED
        BY <3>2
    <2>2. QED
      BY <1>1, <1>4, <1>5, <1>6, <2>1, UnitsLack
  <1>9. QED
    BY <1>7, <1>8

LEMMA AllWritten ==
  ASSUME NEW c \in Calls, c.pc \in Writes,
         c.pc = "line" => c.out = <<Line>>, c.pc = "headers" => c.out = <<Headers>>,
         c.pc = "body" => PieceLeft(c), MoreToSend(c)
  PROVE  Lacks(c.out, LastUnit(c.kind))
  <1>1. CASE c.pc = "line"
    BY <1>1, TokensLack
  <1>2. CASE c.pc = "headers"
    <2>1. c.kind = "upload" /\ c.out = <<Headers>>
      BY <1>2 DEF MoreToSend
    <2>2. QED
      BY <2>1, TokensLack
  <1>3. CASE c.pc = "body"
    <2>1. PICK a, end \in Nat :
             /\ end <= Parts[c.part] /\ (c.offset + Piece < Parts[c.part] => end < Parts[c.part])
             /\ a < end /\ c.out = Units(c.part, a, end - a)
             /\ c.part \in Nat /\ c.part <= Len(Parts) /\ Parts[c.part] \in Nat
      BY <1>3, PieceIs
    <2>2. c.kind = "upload" /\ (c.offset + Piece < Parts[c.part] \/ c.part < Len(Parts))
      BY <1>3 DEF MoreToSend, PieceLeft
    <2>3. c.part # Len(Parts) \/ a + (end - a) < Parts[Len(Parts)]
      <3>1. a + (end - a) = end
        BY <2>1
      <3>2. CASE c.part < Len(Parts)
        BY <2>1, <3>2, PartsAre
      <3>3. CASE c.offset + Piece < Parts[c.part]
        BY <2>1, <3>1, <3>3
      <3>4. QED
        BY <2>2, <3>2, <3>3
    <2>4. end - a \in Nat
      BY <2>1
    <2>5. QED
      BY <2>1, <2>2, <2>3, <2>4, UnitsLack
  <1>4. QED
    BY <1>1, <1>2, <1>3 DEF Writes

LEMMA WriteStep ==
  ASSUME CallInv, NEW n \in 1 .. Len(call.out), Write(n)
  PROVE  CallInv'
  <1> DEFINE out == call.out
             x == SubSeq(out, 1, n)
             y == SubSeq(out, n + 1, Len(out))
             c == [call EXCEPT !.out = y, !.last = n]
             u == LastUnit(call.kind)
             wire == line.wire \o x
  <1>1. /\ call.pc \in Writes /\ server' = server /\ line' = [line EXCEPT !.wire = wire]
        /\ call' = IF call.pc = "body" /\ call.error = "again" THEN Failed(c)
                   ELSE IF c.out # <<>> THEN c ELSE Sent(c)
    BY DEF Write, Writing, Writes, Pc
  <1>2. /\ call \in Calls /\ line \in Lines /\ line.wire \in Seq(Sendable) /\ out \in Seq(Sendable)
        /\ call.buf = <<>> /\ call.body = <<>> /\ Lacks(line.wire, u)
        /\ call.pc = "line" => out = <<Line>>
        /\ call.pc = "headers" => out = <<Headers>>
        /\ call.pc = "body" => PieceLeft(call)
    BY <1>1, WritingIs
  <1> HIDE DEF out
  <1>3. /\ x \in Seq(Sendable) /\ y \in Seq(Sendable) /\ Len(y) = Len(out) - n /\ Len(out) \in Nat
        /\ n \in Int /\ n \in 1 .. Len(out)
    <2>1. n \in 1 .. Len(out) /\ Len(out) \in Nat
      BY <1>2 DEF out
    <2>2. QED
      BY <1>2, <2>1
  <1> HIDE DEF x, y
  <1>4. OutNow(c, call, y)
    <2>1. \A i \in Nat, e \in {"none", "host", "again", "other", "intr"} : OutNow(c, call, y)
      BY <1>2, <1>3, OutTyped
    <2>2. QED
      BY <2>1
  <1> HIDE DEF c, u
  <1>5. /\ c \in Calls /\ c.kind = call.kind /\ c.buf = <<>> /\ c.body = <<>> /\ c.pc = call.pc /\ c.out = y
        /\ c.part = call.part /\ c.offset = call.offset
    BY <1>2, <1>4 DEF OutNow
  <1>6. wire \in Seq(Sendable) /\ (Lacks(x, u) => Lacks(wire, u))
    BY <1>2, <1>3, ConcatProperties, LacksMore
  <1> HIDE DEF wire
  <1>7. line' \in Lines /\ line'.wire = wire /\ line'.reply = line.reply
    BY <1>1, <1>2, <1>6 DEF Lines
  <1>8. Wrote(call', c, wire)
    <2>1. CASE call.pc = "body" /\ call.error = "again"
      BY <1>1, <1>5, <2>1, FailedWrote
    <2>2. CASE ~(call.pc = "body" /\ call.error = "again") /\ y # <<>>
      <3>1. call' = c
        BY <1>1, <1>5, <2>2
      <3>2. n < Len(out)
        <4>1. Len(y) > 0
          BY <1>3, <2>2, EmptySeq
        <4>2. QED
          BY <1>3, <4>1
      <3>3. call.pc = "body" /\ PieceLeft(call)
        <4>1. Len(out) # 1
          BY <1>3, <3>2
        <4>2. QED
          BY <1>1, <1>2, <4>1 DEF Writes
      <3>4. PieceLeft(c) /\ Lacks(x, u)
        BY <1>2, <1>4, <3>2, <3>3, PartWritten DEF out, x, y, u
      <3>5. Unsent(c, wire)
        BY <1>5, <1>6, <3>3, <3>4 DEF Unsent, PieceLeft, u
      <3>6. QED
        BY <1>5, <3>1, <3>3, <3>5 DEF Wrote, Writes
    <2>3. CASE ~(call.pc = "body" /\ call.error = "again") /\ y = <<>>
      <3>1. call' = Sent(c)
        BY <1>1, <1>5, <2>3
      <3>2. x = out
        <4>1. n = Len(out)
          <5>1. Len(y) = 0
            BY <2>3
          <5>2. QED
            BY <1>3, <5>1
        <4>2. QED
          BY <1>2, <4>1, SubSeqFull DEF x
      <3>3. MoreToSend(c) => Lacks(wire, LastUnit(c.kind))
        <4> SUFFICES ASSUME MoreToSend(c) PROVE Lacks(wire, LastUnit(c.kind))
          OBVIOUS
        <4>1. MoreToSend(call)
          BY <1>5 DEF MoreToSend
        <4>2. Lacks(out, u)
          BY <1>1, <1>2, <4>1, AllWritten DEF out, u
        <4>3. QED
          BY <1>5, <1>6, <3>2, <4>2 DEF u
      <3>4. c.pc = "body" => c.kind = "upload" /\ c.part \in 1 .. Len(Parts)
        BY <1>2, <1>5 DEF PieceLeft
      <3>5. QED
        BY <1>1, <1>5, <3>1, <3>3, <3>4, SentWrote
    <2>4. QED
      BY <2>1, <2>2, <2>3
  <1>9. QED
    BY <1>1, <1>5, <1>7, <1>8, WroteStep

(* A write that failed, or was interrupted, has sent nothing.              *)
LEMMA NothingWritten ==
  ASSUME CallInv, call.pc \in Writes, NEW c, OutNow(c, call, call.out),
         call' \in {Failed(c), Sent(c)}, line' = line, server' = server
  PROVE  CallInv'
  <1>1. /\ line \in Lines /\ call.buf = <<>> /\ call.body = <<>> /\ Lacks(line.wire, LastUnit(call.kind))
        /\ call.pc = "body" => PieceLeft(call)
    BY WritingIs
  <1>2. /\ c \in Calls /\ c.kind = call.kind /\ c.buf = <<>> /\ c.body = <<>> /\ c.pc = call.pc
        /\ c.part = call.part
    BY <1>1 DEF OutNow
  <1>3. c.pc = "body" => c.kind = "upload" /\ c.part \in 1 .. Len(Parts)
    BY <1>1, <1>2 DEF PieceLeft
  <1>4. Lacks(line.wire, LastUnit(c.kind))
    BY <1>1, <1>2
  <1>5. Wrote(Failed(c), c, line.wire) /\ Wrote(Sent(c), c, line.wire)
    BY <1>2, <1>3, <1>4, FailedWrote, SentWrote
  <1>6. Wrote(call', c, line'.wire)
    BY <1>5
  <1>7. QED
    BY <1>1, <1>2, <1>6, WroteStep

LEMMA WriteFailsStep ==
  ASSUME CallInv, NEW error \in {"again", "other"}, WriteFails(error)
  PROVE  CallInv'
  <1> DEFINE c == [call EXCEPT !.error = error, !.last = -1]
  <1>1. /\ call.pc \in Writes /\ server' = server /\ line' = line
        /\ call' \in {Failed(c), Sent(c)}
    BY DEF WriteFails, Writing, Writes, Pc
  <1>2. call \in Calls /\ call.out \in Seq(Sendable)
    BY <1>1, WritingIs
  <1>3. OutNow(c, call, call.out)
    <2>1. -1 \in Int /\ 0 \in Nat /\ error \in {"none", "host", "again", "other", "intr"}
      OBVIOUS
    <2>2. QED
      BY <1>2, <2>1, OutTyped
  <1>4. QED
    BY <1>1, <1>3, NothingWritten

LEMMA WriteInterruptedStep ==
  ASSUME CallInv, WriteInterrupted
  PROVE  CallInv'
  <1> DEFINE c == [call EXCEPT !.error = "intr", !.last = -1, !.intr = call.intr + 1]
  <1>1. /\ call.pc \in Writes /\ server' = server /\ line' = line /\ call' \in {Failed(c), Sent(c)}
    BY DEF WriteInterrupted, Writing, Writes
  <1>2. call \in Calls /\ call.out \in Seq(Sendable) /\ call.intr + 1 \in Nat
    BY <1>1, WritingIs DEF Calls
  <1>3. OutNow(c, call, call.out)
    <2>1. -1 \in Int /\ "intr" \in {"none", "host", "again", "other", "intr"}
      OBVIOUS
    <2>2. QED
      BY <1>2, <2>1, OutTyped
  <1>4. QED
    BY <1>1, <1>3, NothingWritten

LEMMA ConnectStep ==
  ASSUME CallInv, Connect
  PROVE  CallInv'
  <1>1. call.pc = "lookup" /\ server' = server /\ call \in Calls /\ line \in Lines
    BY DEF Connect, Pc, CallInv, HttpTyped
  <1>2. call.buf = <<>> /\ call.body = <<>> /\ Lacks(line.wire, LastUnit(call.kind))
    BY <1>1 DEF CallInv, Comes, Unsent, Early
  <1>3. \A e \in {"host", "again"} : Wrote(Failed([call EXCEPT !.error = e]), call, line.wire)
    <2> SUFFICES ASSUME NEW e \in {"host", "again"}
                 PROVE  Wrote(Failed([call EXCEPT !.error = e]), call, line.wire)
      OBVIOUS
    <2> DEFINE c == [call EXCEPT !.error = e]
    <2>1. c \in Calls /\ c.buf = <<>> /\ c.body = <<>> /\ c.kind = call.kind
      BY <1>1, <1>2 DEF Calls
    <2> HIDE DEF c
    <2>2. Wrote(Failed(c), c, line.wire)
      BY <2>1, FailedWrote
    <2>3. QED
      BY <2>1, <2>2 DEF Wrote, c
  <1>4. Wrote(SendLine(call), call, line.wire)
    <2> DEFINE r == SendLine(call)
    <2>1. <<Line>> \in Seq(Sendable)
      BY TokensTyped
    <2>2. /\ r \in Calls /\ r.kind = call.kind /\ r.pc = "line" /\ r.out = <<Line>>
          /\ r.buf = call.buf /\ r.body = call.body
      BY <1>1, <2>1 DEF SendLine, Calls, CallPlaces, Early
    <2> HIDE DEF r
    <2>3. Unsent(r, line.wire)
      BY <1>2, <2>2 DEF Unsent
    <2>4. QED
      BY <1>2, <2>2, <2>3 DEF Wrote, Writes, r
  <1>5. Wrote(call', call, line.wire)
    BY <1>3, <1>4 DEF Connect
  <1>6. line' \in Lines /\ line'.wire = line.wire /\ line'.reply = line.reply
    BY <1>1 DEF Connect, Lines
  <1>7. QED
    BY <1>1, <1>5, <1>6, WroteStep

-----------------------------------------------------------------------------
(* The server's steps: what is lost leaves a start of what was sent.       *)
LEMMA CutComes ==
  ASSUME NEW c \in Calls, NEW reply \in Seq(Answerable), NEW n \in 0 .. Len(reply),
         NEW ans \in {NoAnswer} \cup Answers(Codes), NEW interim, Comes(c, reply, ans, interim)
  PROVE  Comes(c, SubSeq(reply, 1, n), ans, interim)
  <1> DEFINE x == SubSeq(reply, 1, n)
             buf == c.buf
             before == buf \o reply
             now == buf \o x
  <1>1. buf \in Seq(Answerable) /\ x \in Seq(Answerable)
    BY DEF Calls
  <1>2. before \in Seq(Answerable) /\ Len(before) \in Nat /\ now \in Seq(Answerable)
    BY <1>1, ConcatProperties
  <1> HIDE DEF buf
  <1>3. ASSUME NEW t \in Seq(Answerable), Starts(before, t) PROVE Starts(now, t)
    BY <1>1, <1>3, Cut
  <1> HIDE DEF x, before, now
  <1>4. ans # NoAnswer => /\ Body(ans.chunks) \in Seq(Answerable) /\ Encode(ans) \in Seq(Answerable)
                          /\ <<Cont>> \o Encode(ans) \in Seq(Answerable)
                          /\ ans.chunks \in Seq(Nat \ {0}) /\ Len(ans.chunks) \in Nat
    <2> SUFFICES ASSUME ans \in Answers(Codes) PROVE ans.chunks \in Seq(Nat \ {0}) /\ Len(ans.chunks) \in Nat
                   /\ Body(ans.chunks) \in Seq(Answerable) /\ Encode(ans) \in Seq(Answerable)
                   /\ <<Cont>> \o Encode(ans) \in Seq(Answerable)
      OBVIOUS
    <2>1. QED
      BY AnswerIs
  <1>5. c.pc \in Early \cup {"headers_in"} =>
          IF ans = NoAnswer THEN now = <<>> \/ (interim /\ now = <<Cont>>)
          ELSE Starts(now, Encode(ans)) \/ Starts(now, <<Cont>> \o Encode(ans))
    <2> SUFFICES ASSUME c.pc \in Early \cup {"headers_in"}
                 PROVE  IF ans = NoAnswer THEN now = <<>> \/ (interim /\ now = <<Cont>>)
                        ELSE Starts(now, Encode(ans)) \/ Starts(now, <<Cont>> \o Encode(ans))
      OBVIOUS
    <2>1. IF ans = NoAnswer THEN before = <<>> \/ (interim /\ before = <<Cont>>)
          ELSE Starts(before, Encode(ans)) \/ Starts(before, <<Cont>> \o Encode(ans))
      BY DEF Comes, before, buf
    <2>2. CASE ans = NoAnswer
      <3>1. Starts(now, before)
        BY <1>2, <1>3, StartsItself
      <3>2. Len(now) <= Len(before) /\ \A i \in 1 .. Len(now) : now[i] = before[i]
        BY <3>1 DEF Starts
      <3>3. CASE before = <<>>
        <4>1. Len(now) <= 0
          BY <3>2, <3>3
        <4>2. QED
          BY <1>2, <2>2, <4>1, EmptySeq
      <3>4. CASE interim /\ before = <<Cont>>
        <4>1. Len(before) = 1 /\ before[1] = Cont
          BY <3>4
        <4>2. now # <<>> => Len(now) = 1
          BY <1>2, <3>2, <4>1, EmptySeq
        <4>3. now # <<>> => now = before
          BY <1>2, <3>2, <4>1, <4>2, SeqEqual
        <4>4. QED
          BY <2>2, <3>4, <4>3
      <3>5. QED
        BY <2>1, <2>2, <3>3, <3>4
    <2>3. CASE ans # NoAnswer
      BY <1>3, <1>4, <2>1, <2>3
    <2>4. QED
      BY <2>2, <2>3
  <1>6. c.pc \in {"length", "close"} => ans.framing = c.pc /\ Starts(now, Body(ans.chunks)) /\ c.body = <<>>
    <2> SUFFICES ASSUME c.pc \in {"length", "close"}
                 PROVE  ans.framing = c.pc /\ Starts(now, Body(ans.chunks)) /\ c.body = <<>>
      OBVIOUS
    <2>1. /\ ans # NoAnswer /\ ans.framing = c.pc /\ c.body = <<>> /\ Starts(before, Body(ans.chunks))
      BY DEF Comes, Reads, before, buf
    <2>2. QED
      BY <1>3, <1>4, <2>1
  <1>7. c.pc = "size" => \E m \in 0 .. Len(ans.chunks) : BeforeChunk(c, x, ans.chunks, m)
    <2> SUFFICES ASSUME c.pc = "size" PROVE \E m \in 0 .. Len(ans.chunks) : BeforeChunk(c, x, ans.chunks, m)
      OBVIOUS
    <2>1. ans # NoAnswer
      BY DEF Comes, Reads
    <2>2. PICK m \in 0 .. Len(ans.chunks) : BeforeChunk(c, reply, ans.chunks, m)
      BY DEF Comes
    <2>3. ChunksFrom(ans.chunks)[m] \in Seq(Answerable)
      BY <1>4, <2>1, ChunksAre
    <2>4. Starts(now, ChunksFrom(ans.chunks)[m])
      BY <1>3, <2>2, <2>3 DEF BeforeChunk, before, buf
    <2>5. BeforeChunk(c, x, ans.chunks, m)
      BY <2>2, <2>4 DEF BeforeChunk, now, buf
    <2>6. QED
      BY <2>5
  <1>8. c.pc = "chunk" => \E m \in 1 .. Len(ans.chunks) : InChunk(c, x, ans.chunks, m)
    <2> SUFFICES ASSUME c.pc = "chunk" PROVE \E m \in 1 .. Len(ans.chunks) : InChunk(c, x, ans.chunks, m)
      OBVIOUS
    <2> DEFINE a == <<Size(c.chunk)>> \o c.buf
    <2>1. ans # NoAnswer
      BY DEF Comes, Reads
    <2>2. PICK m \in 1 .. Len(ans.chunks) : InChunk(c, reply, ans.chunks, m)
      BY DEF Comes
    <2> DEFINE t == ChunksFrom(ans.chunks)[m]
    <2>3. t \in Seq(Answerable)
      <3>1. m \in 0 .. Len(ans.chunks)
        BY <1>4, <2>1
      <3>2. QED
        BY <1>4, <2>1, <3>1, ChunksAre
    <2>4. a \in Seq(Answerable)
      <3>1. c.chunk \in Nat /\ c.buf \in Seq(Answerable)
        BY DEF Calls
      <3>2. <<Size(c.chunk)>> \in Seq(Answerable)
        BY <3>1, TokensTyped
      <3>3. QED
        BY <3>1, <3>2, ConcatProperties
    <2>5. Starts(a \o reply, t)
      BY <2>2 DEF InChunk
    <2> HIDE DEF a, t
    <2>6. Starts(a \o x, t)
      BY <2>3, <2>4, <2>5, Cut DEF x
    <2>7. InChunk(c, x, ans.chunks, m)
      BY <2>2, <2>6 DEF InChunk, a, t
    <2>8. QED
      BY <2>7
  <1>9. /\ c.pc \in Early => c.buf = <<>>
        /\ c.pc \in Early \cup {"headers_in"} => c.body = <<>>
        /\ c.pc \in Reads => ans # NoAnswer
        /\ c.pc = "length" => c.left + Len(c.buf) = Total(ans.chunks) /\ c.left > 0
        /\ c.pc \in {"size", "chunk", "last"} => ans.framing = "chunked"
        /\ c.pc = "chunk" => c.left + Len(c.buf) = c.chunk + 2 /\ c.left > 0
        /\ c.pc = "last" => c.body = Body(ans.chunks)
    BY DEF Comes
  <1>10. Comes(c, x, ans, interim)
    BY <1>5, <1>6, <1>7, <1>8, <1>9 DEF Comes, now, buf
  <1>11. QED
    BY <1>10 DEF x

LEMMA ServerIs ==
  ASSUME CallInv
  PROVE  /\ call \in Calls /\ line \in Lines /\ line.reply \in Seq(Answerable)
         /\ server.ans \in {NoAnswer} \cup Answers(Codes)
         /\ server.interim \in BOOLEAN /\ server.closed \in BOOLEAN
         /\ Comes(call, line.reply, server.ans, server.interim)
  BY DEF CallInv, HttpTyped, Lines, Codes

(* The line has changed, and what the server answered has not.             *)
LEMMA LineStep ==
  ASSUME CallInv, call' = call, line' \in Lines, line'.wire = line.wire,
         server' \in [ans : {NoAnswer} \cup Answers(Codes), interim : BOOLEAN, closed : BOOLEAN],
         server'.ans = server.ans, server'.interim = server.interim,
         Comes(call, line'.reply, server.ans, server.interim)
  PROVE  CallInv'
  <1>1. HttpTyped'
    BY DEF CallInv, HttpTyped, Codes
  <1>2. /\ Unsent(call', line'.wire) /\ Comes(call', line'.reply, server'.ans, server'.interim)
        /\ Told(call', server'.ans) /\ Answered(call', line'.wire, server'.ans)
    BY DEF CallInv
  <1>3. QED
    BY <1>1, <1>2 DEF CallInv

LEMMA CloseStep ==
  ASSUME CallInv, Close
  PROVE  CallInv'
  <1>1. PICK n \in 0 .. Len(line.reply) : line' = [line EXCEPT !.reply = SubSeq(line.reply, 1, n)]
    BY DEF Close
  <1>2. call' = call /\ server' = [server EXCEPT !.closed = TRUE]
    BY DEF Close
  <1>3. SubSeq(line.reply, 1, n) \in Seq(Answerable)
    BY ServerIs
  <1>4. line' \in Lines /\ line'.wire = line.wire /\ line'.reply = SubSeq(line.reply, 1, n)
    BY <1>1, <1>3, ServerIs DEF Lines
  <1>5. Comes(call, line'.reply, server.ans, server.interim)
    BY <1>4, ServerIs, CutComes
  <1>6. /\ server' \in [ans : {NoAnswer} \cup Answers(Codes), interim : BOOLEAN, closed : BOOLEAN]
        /\ server'.ans = server.ans /\ server'.interim = server.interim
    BY <1>2 DEF CallInv, HttpTyped, Codes
  <1>7. QED
    BY <1>2, <1>4, <1>5, <1>6, LineStep

LEMMA ResetStep ==
  ASSUME CallInv, Reset
  PROVE  CallInv'
  <1>1. call' = call /\ server' = server /\ line' = [line EXCEPT !.reply = <<>>, !.conn = "down"]
    BY DEF Reset
  <1>2. line' \in Lines /\ line'.wire = line.wire /\ line'.reply = <<>>
    <2>1. <<>> \in Seq(Answerable) /\ line \in Lines
      BY ServerIs
    <2>2. QED
      BY <1>1, <2>1 DEF Lines
  <1>3. 0 \in 0 .. Len(line.reply) /\ SubSeq(line.reply, 1, 0) = <<>>
    BY ServerIs, SubSeqEmpty
  <1>4. Comes(call, line'.reply, server.ans, server.interim)
    BY <1>2, <1>3, ServerIs, CutComes
  <1>5. server' \in [ans : {NoAnswer} \cup Answers(Codes), interim : BOOLEAN, closed : BOOLEAN]
    BY <1>1 DEF CallInv, HttpTyped, Codes
  <1>6. QED
    BY <1>1, <1>2, <1>4, <1>5, LineStep

LEMMA EstablishedStep ==
  ASSUME CallInv, Established
  PROVE  CallInv'
  <1>1. call' = call /\ server' = server /\ line' = [line EXCEPT !.conn = "up"]
    BY DEF Established
  <1>2. line' \in Lines /\ line'.wire = line.wire /\ line'.reply = line.reply
    BY <1>1, ServerIs DEF Lines
  <1>3. server' \in [ans : {NoAnswer} \cup Answers(Codes), interim : BOOLEAN, closed : BOOLEAN]
    BY <1>1 DEF CallInv, HttpTyped, Codes
  <1>4. QED
    BY <1>1, <1>2, <1>3, ServerIs, LineStep

(* Before the answer, what is there to read is nothing or an interim one.  *)
LEMMA NotAnsweredYet ==
  ASSUME CallInv, Serving, server.ans = NoAnswer
  PROVE  /\ call.pc \notin Reads /\ call.pc # "returned" /\ call.buf \in Seq(Answerable)
         /\ \/ call.buf \o line.reply = <<>>
            \/ server.interim /\ call.buf \o line.reply = <<Cont>>
  <1>1. call.pc \in CallPlaces /\ call.pc # "returned" /\ call.buf \in Seq(Answerable)
    BY ServerIs DEF Calls, Serving
  <1>2. call.pc \notin Reads
    BY ServerIs DEF Comes
  <1>3. call.pc \in Early \cup {"headers_in"}
    BY <1>1, <1>2 DEF CallPlaces
  <1>4. QED
    BY <1>1, <1>2, <1>3, ServerIs DEF Comes

LEMMA ContinueStep ==
  ASSUME CallInv, Continue
  PROVE  CallInv'
  <1>1. /\ call' = call /\ Serving /\ server.ans = NoAnswer /\ ~server.interim
        /\ server' = [server EXCEPT !.interim = TRUE]
        /\ line' = [line EXCEPT !.reply = Append(line.reply, Cont)]
    BY DEF Continue
  <1>2. /\ call.pc \notin Reads /\ call.pc # "returned" /\ call.buf \in Seq(Answerable)
        /\ call.buf \o line.reply = <<>>
    BY <1>1, NotAnsweredYet
  <1>3. call.buf = <<>> /\ line.reply = <<>>
    <2> DEFINE a == call.buf
               b == line.reply
    <2>1. a \in Seq(Answerable) /\ b \in Seq(Answerable)
      BY <1>2, ServerIs
    <2>2. a \o b = <<>>
      BY <1>2
    <2> HIDE DEF a, b
    <2>3. Len(a) + Len(b) = 0 /\ Len(a) \in Nat /\ Len(b) \in Nat
      BY <2>1, <2>2, ConcatProperties
    <2>4. Len(a) = 0 /\ Len(b) = 0
      BY <2>3
    <2>5. a = <<>> /\ b = <<>>
      BY <2>1, <2>4, EmptySeq
    <2>6. QED
      BY <2>5 DEF a, b
  <1>4. Append(line.reply, Cont) = <<Cont>> /\ <<Cont>> \in Seq(Answerable) /\ <<>> \o <<Cont>> = <<Cont>>
    BY <1>3, TokensTyped
  <1>5. /\ line' \in Lines /\ line'.wire = line.wire /\ line'.reply = <<Cont>>
        /\ call'.buf \o line'.reply = <<Cont>>
    BY <1>1, <1>3, <1>4, ServerIs DEF Lines
  <1>6. /\ server' \in [ans : {NoAnswer} \cup Answers(Codes), interim : BOOLEAN, closed : BOOLEAN]
        /\ server'.ans = NoAnswer /\ server'.interim = TRUE
    BY <1>1 DEF CallInv, HttpTyped, Codes
  <1>7. HttpTyped'
    BY <1>1, <1>5, <1>6 DEF CallInv, HttpTyped, Codes
  <1>8. Comes(call', line'.reply, server'.ans, server'.interim)
    <2>1. call.pc \in Early \cup {"headers_in"} => call.body = <<>>
      BY ServerIs DEF Comes
    <2>2. call.pc \notin {"length", "close", "size", "chunk", "last"}
      BY <1>2 DEF Reads
    <2>3. QED
      BY <1>1, <1>2, <1>3, <1>5, <1>6, <2>1, <2>2 DEF Comes
  <1>9. /\ Unsent(call', line'.wire) /\ Told(call', server'.ans) /\ Answered(call', line'.wire, server'.ans)
    BY <1>1, <1>5, <1>6 DEF CallInv
  <1>10. QED
    BY <1>7, <1>8, <1>9 DEF CallInv

LEMMA AnswerStep ==
  ASSUME CallInv, Answer
  PROVE  CallInv'
  <1>1. call' = call /\ Serving /\ server.ans = NoAnswer
    BY DEF Answer
  <1>2. PICK ans \in Answers(IF line.wire = Request(call.kind) THEN {"200", "2xx", "other"} ELSE {"other"}) :
          /\ server' = [server EXCEPT !.ans = ans]
          /\ line' = [line EXCEPT !.reply = line.reply \o Encode(ans)]
    BY DEF Answer
  <1>3. /\ call.pc \notin Reads /\ call.pc # "returned" /\ call.buf \in Seq(Answerable)
        /\ call.buf \o line.reply = <<>> \/ call.buf \o line.reply = <<Cont>>
    BY <1>1, NotAnsweredYet
  <1>4. ans \in Answers(Codes) /\ (ans.code \in {"200", "2xx"} => line.wire = Request(call.kind)) /\ ans # NoAnswer
    BY DEF Answers, Codes, NoAnswer
  <1> DEFINE e == Encode(ans)
             a == call.buf
             b == line.reply
             ce == <<Cont>> \o e
  <1>5. e \in Seq(Answerable) /\ ce \in Seq(Answerable) /\ a \in Seq(Answerable) /\ b \in Seq(Answerable)
    BY <1>3, <1>4, AnswerIs, ServerIs
  <1>6. a \o b = <<>> \/ a \o b = <<Cont>>
    BY <1>3
  <1>7. line' = [line EXCEPT !.reply = b \o e]
    BY <1>2
  <1> HIDE DEF e, a, b
  <1>8. b \o e \in Seq(Answerable) /\ (a \o b) \o e = a \o (b \o e)
    <2>1. b \o e \in Seq(Answerable)
      BY <1>5, ConcatProperties
    <2>2. (a \o b) \o e = a \o (b \o e)
      BY <1>5, Assoc
    <2>3. QED
      BY <2>1, <2>2
  <1>9. a \o (b \o e) = e \/ a \o (b \o e) = ce
    <2>1. <<>> \o e = e
      BY <1>5, ConcatEmptySeq
    <2>2. QED
      BY <1>6, <1>8, <2>1
  <1>10. Starts(a \o (b \o e), e) \/ Starts(a \o (b \o e), ce)
    <2>1. Len(e) \in Nat /\ Len(ce) \in Nat
      BY <1>5, LenProperties
    <2> HIDE DEF ce
    <2>2. QED
      BY <1>9, <2>1, StartsItself
  <1>11. line' \in Lines /\ line'.wire = line.wire /\ line'.reply = b \o e
    BY <1>7, <1>8, ServerIs DEF Lines
  <1>12. /\ server' \in [ans : {NoAnswer} \cup Answers(Codes), interim : BOOLEAN, closed : BOOLEAN]
         /\ server'.ans = ans
    BY <1>2, <1>4 DEF CallInv, HttpTyped, Codes
  <1>13. HttpTyped'
    BY <1>1, <1>11, <1>12, ServerIs DEF HttpTyped, Codes
  <1>14. Comes(call', line'.reply, server'.ans, server'.interim)
    <2>1. /\ call.pc \in Early => call.buf = <<>>
          /\ call.pc \in Early \cup {"headers_in"} => call.body = <<>>
      BY ServerIs DEF Comes
    <2>2. call.pc \notin {"length", "close", "size", "chunk", "last"}
      BY <1>3 DEF Reads
    <2>3. Starts(call'.buf \o line'.reply, Encode(ans)) \/ Starts(call'.buf \o line'.reply, <<Cont>> \o Encode(ans))
      BY <1>1, <1>10, <1>11 DEF a, e
    <2>4. QED
      BY <1>1, <1>3, <1>4, <1>12, <2>1, <2>2, <2>3 DEF Comes
  <1>15. /\ Unsent(call', line'.wire) /\ Told(call', server'.ans)
         /\ Answered(call', line'.wire, server'.ans)
    BY <1>1, <1>3, <1>4, <1>11, <1>12 DEF CallInv, Told, Answered
  <1>16. QED
    BY <1>13, <1>14, <1>15 DEF CallInv

(* A new request.                                                          *)
LEMMA FreshCall ==
  ASSUME NEW kind \in Kinds \cup {"none"}, NEW pc \in {"idle", "lookup"},
         call' = [NewRequest(kind) EXCEPT !.pc = pc],
         line' = [conn |-> "none", wire |-> <<>>, reply |-> <<>>],
         server' = [ans |-> NoAnswer, interim |-> FALSE, closed |-> FALSE]
  PROVE  CallInv'
  <1>1. <<>> \in Seq(Sendable) /\ <<>> \in Seq(Answerable) /\ <<>> \o <<>> = <<>>
    OBVIOUS
  <1>2. /\ call' \in Calls /\ call'.pc = pc /\ call'.kind = kind /\ call'.buf = <<>> /\ call'.body = <<>>
    <2> DEFINE r == NewRequest(kind)
    <2>1. r.kind = kind /\ r.buf = <<>> /\ r.body = <<>>
      BY DEF NewRequest
    <2>2. r \in Calls
      <3>1. "lookup" \in CallPlaces
        BY DEF CallPlaces, Early
      <3>2. QED
        BY <1>1, <3>1 DEF NewRequest, Calls
    <2>3. pc \in CallPlaces
      BY DEF CallPlaces, Early
    <2>4. call' = [r EXCEPT !.pc = pc]
      OBVIOUS
    <2> HIDE DEF r
    <2>5. QED
      BY <2>1, <2>2, <2>3, <2>4 DEF Calls
  <1>3. /\ line' \in Lines /\ line'.wire = <<>> /\ line'.reply = <<>>
    BY <1>1 DEF Lines
  <1>4. HttpTyped'
    BY <1>2, <1>3 DEF HttpTyped
  <1>5. Unsent(call', line'.wire)
    BY <1>2, <1>3 DEF Unsent, Lacks
  <1>6. Comes(call', line'.reply, server'.ans, server'.interim)
    BY <1>1, <1>2, <1>3 DEF Comes, Early, Reads
  <1>7. Told(call', server'.ans) /\ Answered(call', line'.wire, server'.ans)
    BY <1>2 DEF Told, Answered, NoAnswer
  <1>8. QED
    BY <1>4, <1>5, <1>6, <1>7 DEF CallInv

-----------------------------------------------------------------------------
LEMMA CallInit == Init => CallInv
  <1> SUFFICES ASSUME Init PROVE CallInv
    OBVIOUS
  <1> DEFINE r == NewRequest("none")
  <1>1. <<>> \in Seq(Sendable) /\ <<>> \in Seq(Answerable) /\ <<>> \o <<>> = <<>>
    OBVIOUS
  <1>2. /\ call = [r EXCEPT !.pc = "idle"]
        /\ line = [conn |-> "none", wire |-> <<>>, reply |-> <<>>]
        /\ server = [ans |-> NoAnswer, interim |-> FALSE, closed |-> FALSE]
    BY DEF Init, HttpInit
  <1>3. r \in Calls /\ r.buf = <<>> /\ r.body = <<>>
    <2>1. "lookup" \in CallPlaces
      BY DEF CallPlaces, Early
    <2>2. QED
      BY <1>1, <2>1 DEF NewRequest, Calls
  <1>4. "idle" \in CallPlaces
    BY DEF CallPlaces, Early
  <1> HIDE DEF r
  <1>5. call \in Calls /\ call.pc = "idle" /\ call.buf = <<>> /\ call.body = <<>>
    BY <1>2, <1>3, <1>4 DEF Calls
  <1>6. line \in Lines /\ line.wire = <<>> /\ line.reply = <<>>
    BY <1>1, <1>2 DEF Lines
  <1>7. HttpTyped
    BY <1>2, <1>5, <1>6 DEF HttpTyped
  <1>8. Unsent(call, line.wire)
    BY <1>5 DEF Unsent
  <1>9. Comes(call, line.reply, server.ans, server.interim)
    BY <1>1, <1>2, <1>5, <1>6 DEF Comes, Early, Reads
  <1>10. Told(call, server.ans) /\ Answered(call, line.wire, server.ans)
    BY <1>2, <1>5 DEF Told, Answered, NoAnswer
  <1>11. QED
    BY <1>7, <1>8, <1>9, <1>10 DEF CallInv

LEMMA CallStepInv == CallInv /\ [Next]_vars => CallInv'
  <1> SUFFICES ASSUME CallInv, [Next]_vars PROVE CallInv'
    OBVIOUS
  <1>1. ASSUME UNCHANGED httpVars PROVE CallInv'
    BY <1>1 DEF httpVars, CallInv, HttpTyped
  <1>2. CASE UNCHANGED vars
    BY <1>1, <1>2 DEF vars
  <1>3. CASE CallStep
    <2>1. CASE (LookupStep(Caller) /\ UNCHANGED httpVars) \/ LookUpHost(CallHost)
      BY <1>1, <2>1 DEF LookUpHost
    <2>2. CASE Connect
      BY <2>2, ConnectStep
    <2>3. CASE Sending
      BY <2>3, WriteStep, WriteInterruptedStep, WriteFailsStep DEF Sending
    <2>4. CASE Receiving
      BY <2>4, ReadStep, ReadSizeStep, ReadEndStep, ReadInterruptedStep, ReadFailsStep DEF Receiving
    <2>5. QED
      BY <1>3, <2>1, <2>2, <2>3, <2>4 DEF CallStep
  <1>4. CASE Requests
    <2>1. CASE Server
      BY <2>1, AnswerStep, ContinueStep, CloseStep, ResetStep, EstablishedStep DEF Server
    <2>2. ASSUME NEW kind \in Kinds, Begin(kind) PROVE CallInv'
      <3>1. call' = [NewRequest(kind) EXCEPT !.pc = "lookup"]
        BY <2>2 DEF Begin, NewRequest
      <3>2. QED
        BY <2>2, <3>1, FreshCall DEF Begin
    <2>3. QED
      BY <1>4, <2>1, <2>2 DEF Requests
  <1>5. CASE \E t \in Threads : NamesStep(t)
    BY <1>1, <1>5 DEF NamesStep
  <1>6. QED
    BY <1>2, <1>3, <1>4, <1>5 DEF Next

LEMMA CallInvTrue == CallInv => AnswerTrue
  <1> SUFFICES ASSUME CallInv, call.pc = "returned", ToldOk PROVE
        /\ line.wire = Request(call.kind)
        /\ server.ans.code \in (IF call.kind = "upload" THEN {"200"} ELSE {"200", "2xx"})
        /\ IsPrefix(call.body, Body(server.ans.chunks))
        /\ server.ans.framing # "close" => call.body = Body(server.ans.chunks)
        /\ call.kind = "simple" => IsPrefix(call.resp, call.body) /\ call.respLen = Len(call.body)
    BY DEF AnswerTrue
  <1>1. call.ret = "ok" /\ call.kind \in {"upload", "simple"}
    BY DEF ToldOk, UploadResult
  <1>2. /\ call.kind = "upload" => server.ans.code = "200"
        /\ call.kind = "simple" => server.ans.code \in {"200", "2xx"}
        /\ Starts(call.body, Body(server.ans.chunks))
        /\ server.ans.framing # "close" => call.body = Body(server.ans.chunks)
        /\ call.kind = "simple" => Starts(call.resp, call.body) /\ call.respLen = Len(call.body)
    BY <1>1 DEF CallInv, Told
  <1>3. server.ans.code \in {"200", "2xx"}
    BY <1>1, <1>2
  <1>4. line.wire = Request(call.kind)
    BY <1>3 DEF CallInv, Answered
  <1>5. server.ans \in Answers(Codes)
    BY <1>3, ServerIs DEF NoAnswer
  <1>6. /\ call.body \in Seq(Answerable) /\ call.resp \in Seq(Answerable)
        /\ Body(server.ans.chunks) \in Seq(Answerable)
    BY <1>5, ServerIs, AnswerIs DEF Calls
  <1>7. /\ IsPrefix(call.body, Body(server.ans.chunks))
        /\ call.kind = "simple" => IsPrefix(call.resp, call.body)
    BY <1>2, <1>6, StartsPrefix
  <1>8. QED
    BY <1>1, <1>2, <1>3, <1>4, <1>7

(* From the first byte written to the caller's result, whatever is lost,   *)
(* cut or interrupted: what is in io_buf and still to be read is the start *)
(* of what the server sent, and what was taken is the front of the body    *)
(* (http_resp_read_headers, http_resp_read_body).                          *)
THEOREM RequestCoherent == Spec => []CallInv
  <1>1. Init => CallInv
    BY CallInit
  <1>2. CallInv /\ [Next]_vars => CallInv'
    BY CallStepInv
  <1>3. QED BY <1>1, <1>2, PTL DEF Spec

(* A caller told that its request went well can rely on it (linkUpload,    *)
(* linkSimpleHttpRequest), whatever the parts of the upload, the sizes of  *)
(* the chunks, the caller's buffer and the sizes of reads and writes.      *)
THEOREM AnswersTrue == Spec => []AnswerTrue
  BY RequestCoherent, CallInvTrue, PTL
=============================================================================
