-------------------------- MODULE IndicatorExchange --------------------------
(***************************************************************************)
(* misp-push and misp-pull: ioc.py finds indicators in events, exports.py  *)
(* turns them into attributes, and misp.py writes what MISP hands back     *)
(* into the CDB lists that Wazuh matches.  MISP is external.               *)
(***************************************************************************)
EXTENDS FiniteSets, Naturals

CONSTANTS
  PublicIps, InnerIps,  \* addresses with ip_scope "global", and all others
  Names,                \* host names
  ReservedNames,        \* those of _is_reserved_domain
  Hashes,
  Sightings,            \* what can be found in an event
  MaxExchanges          \* bound: pushes, pulls and changes in MISP

\* IPv4: an address with colons gets into no list
Ips == PublicIps \union InnerIps
Hosts == Ips \union Names
\* http://host/x, //host/x, and host/x, in which urlparse finds no host
Urls == [form : {"scheme", "slashes", "bare"}, host : Hosts]

ASSUME ExchangeAssumption ==
  /\ MaxExchanges \in Nat
  /\ PublicIps \intersect InnerIps = {} /\ Ips \intersect (Names \union Hashes) = {}
  /\ ReservedNames \subseteq Names
  /\ Sightings \subseteq [src : SUBSET Ips, dest : SUBSET Ips, urls : SUBSET Urls,
                          domains : SUBSET Hosts, hashes : SUBSET Hashes]

VARIABLES
  attributes,  \* what MISP holds: [type, value, to_ids, ours]
  hits,        \* attributes pulled, not all of their lists written yet
  anyway,      \* --include-non-ids of this pull
  unwritten,   \* lists that this pull has not written
  lists,       \* [list -> rows [key, type]]
  trusted,     \* history: values that a foreign attribute or --include-non-ids let in
  exchanges

exchangeVars == <<attributes, hits, anyway, unwritten, lists, trusted, exchanges>>

CDB_LISTS ==
  [ip |-> {"ip-src", "ip-dst"}, domain |-> {"domain"}, url |-> {"url"}, hash |-> {"md5"}]

ExchangeInit ==
  /\ attributes = {} /\ hits = {} /\ anyway = FALSE /\ unwritten = {}
  /\ lists = [l \in DOMAIN CDB_LISTS |-> {}] /\ trusted = {} /\ exchanges = 0

Budget == exchanges < MaxExchanges /\ exchanges' = exchanges + 1

-----------------------------------------------------------------------------

IocsOf(kind, values) == {[kind |-> kind, value |-> v] : v \in values}

\* _event_iocs: addresses of the fields and the text, URLs with the hosts that
\* _url_iocs sees in them (kinds ip and dest_ip are one to MISP), the domain field
\* (a Host header, a DNS query), hashes
EventIocs(e) ==
  LET hosts == {u.host : u \in {v \in e.urls : v.form # "bare"}}
  IN  IocsOf("src_ip", e.src) \union IocsOf("dest_ip", e.dest \union (hosts \intersect Ips))
      \union IocsOf("url", e.urls) \union IocsOf("domain", e.domains \union (hosts \ Ips))
      \union IocsOf("md5", e.hashes)

MISP_TYPES ==
  [src_ip |-> "ip-src", dest_ip |-> "ip-dst", domain |-> "domain", url |-> "url", md5 |-> "md5"]

\* Faulty variant: the host of a URL is judged as a name, also if it is an address
ToIdsByName(type, value) ==
  /\ type \in {"ip-src", "ip-dst"} => value \in PublicIps
  /\ type = "domain" => value \notin ReservedNames
  /\ type = "url" => value.form # "bare" /\ value.host \notin ReservedNames

\* _to_ids; a domain that is an address is judged as a name
ToIds(type, value) ==
  /\ type \in {"ip-src", "ip-dst"} => value \in PublicIps
  /\ type = "domain" => value \notin ReservedNames
  /\ type = "url" => value.form # "bare" /\ value.host \in PublicIps \union (Names \ ReservedNames)

\* report_to_misp_attributes: one attribute per type and value
Exported(iocs) ==
  {[type |-> MISP_TYPES[i.kind], value |-> i.value,
    to_ids |-> ToIds(MISP_TYPES[i.kind], i.value), ours |-> TRUE] : i \in iocs}

\* push_misp_event: a request that fails may have been carried out
Push ==
  /\ Budget
  /\ \E e \in Sightings : attributes' \in {attributes, attributes \union Exported(EventIocs(e))}
  /\ UNCHANGED <<hits, anyway, unwritten, lists, trusted>>

\* Somebody else publishes what the sensors see too, or takes it for detection
MispChanges ==
  /\ Budget
  /\ \E e \in Sightings : \E i \in EventIocs(e) :
       attributes' = attributes \union
         {[type |-> MISP_TYPES[i.kind], value |-> i.value, to_ids |-> TRUE, ours |-> FALSE]}
  /\ UNCHANGED <<hits, anyway, unwritten, lists, trusted>>

\* pull_misp_attributes; the lists of an interrupted pull stay as they are
Pull ==
  /\ Budget
  /\ anyway' \in BOOLEAN
  /\ hits' = {a \in attributes : anyway' \/ a.to_ids}
  /\ unwritten' = DOMAIN CDB_LISTS
  /\ trusted' = trusted \union {a.value : a \in {b \in hits' : anyway' \/ ~b.ours}}
  /\ UNCHANGED <<attributes, lists>>

\* _cdb_key: the colon of a scheme would split the row
Storable(a) == a.type = "url" => a.value.form # "scheme"

\* One row for every attribute that belongs into the list
Fitting(l) ==
  {[key |-> a.value, type |-> a.type] : a \in {b \in hits : b.type \in CDB_LISTS[l] /\ Storable(b)}}

\* Faulty variant: rows are told apart by key and type
RowsByType(l) == {Fitting(l)}

\* misp_attributes_to_wazuh_cdb: the first attribute with a key makes the row,
\* whichever MISP sends first
RowsOf(l) ==
  {R \in SUBSET Fitting(l) : /\ \A f \in Fitting(l) : \E r \in R : r.key = f.key
                             /\ \A r, s \in R : r.key = s.key => r = s}

\* write_wazuh_cdb_lists: one file after the other
WriteList(l) ==
  /\ l \in unwritten
  /\ \E rows \in RowsOf(l) : lists' = [lists EXCEPT ![l] = rows]
  /\ unwritten' = unwritten \ {l}
  /\ hits' = IF unwritten' = {} THEN {} ELSE hits
  /\ UNCHANGED <<attributes, anyway, trusted, exchanges>>

\* write_text leaves an empty or partial list when the command is killed
KilledWriting(l) ==
  /\ l \in unwritten
  /\ \E part \in UNION {SUBSET rows : rows \in RowsOf(l)} : lists' = [lists EXCEPT ![l] = part]
  /\ unwritten' = {} /\ hits' = {}
  /\ UNCHANGED <<attributes, anyway, trusted, exchanges>>

ExchangeNext ==
  \/ Push \/ MispChanges \/ Pull
  \/ \E l \in DOMAIN CDB_LISTS : WriteList(l) \/ KilledWriting(l)

-----------------------------------------------------------------------------

HostOf(type, value) == IF type = "url" THEN value.host ELSE value

(* What the sensors saw of their own network never becomes an address, a    *)
(* URL or a hash that Wazuh alerts on, unless someone else published it or  *)
(* the operator asked for everything; the list of domains is left out,      *)
(* because _to_ids does not look for addresses there (_to_ids, the to_ids   *)
(* filter of the pull, _cdb_key).                                           *)
OwnNetworkNotListed ==
  \A l \in DOMAIN lists \ {"domain"} : \A r \in lists[l] :
    HostOf(r.type, r.key) \in InnerIps => r.key \in trusted

(* A CDB list has one row per key, though an address may have been seen as  *)
(* a source and as a destination, here and by others (seen in               *)
(* misp_attributes_to_wazuh_cdb), also after an interrupted pull.           *)
KeysUnique ==
  \A l \in DOMAIN lists : \A r, s \in lists[l] : r.key = s.key => r = s
=============================================================================
