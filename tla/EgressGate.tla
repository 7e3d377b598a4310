----------------------------- MODULE EgressGate -----------------------------
(***************************************************************************)
(* The egress enforcement point (crates/egress): a transport asks for an   *)
(* authorization, has the addresses of its host validated and pinned, has  *)
(* each connection verified, follows redirects.  A host is a sequence of   *)
(* labels, the top level first, in some spelling; an address in whatever   *)
(* notation stands for itself.                                             *)
(***************************************************************************)
EXTENDS Naturals, Sequences

CONSTANTS
    Rules,          \* [purpose, schemes, domains, literals, allow_ip_literals,
                    \* max_data_class, redirect]; a domain is [host, subdomains]
    EgressRequests, \* [purpose, scheme, host, port, data_class, tainted]; a
                    \* host is [labels, spelling]
    Addresses,
    Blocked,        \* the addresses of private and reserved ranges
    MetadataHosts

\* new: a purpose has one rule.
EgressAssumption ==
    /\ \A q, r \in Rules : q.purpose = r.purpose => q = r
    /\ \A r \in Rules : r.max_data_class \in Nat
    /\ Blocked \subseteq Addresses

VARIABLES
    authorization,  \* what the transport holds: {} or one
    asked,          \* the request it was given for, or that led to it by
                    \* redirects (history)
    resolved,       \* the addresses validated for it, {} for none yet (history)
    link            \* the last connection verified under these pins: {} or
                    \* [host, port, address]

vars == <<authorization, asked, resolved, link>>

\* canonical_host: case, scheme, user, port and the last dot are left out.
CanonicalHost(host) == host.labels

Hosts == {r.host : r \in EgressRequests}

\* parse_ip_literal.
Literals(labels) == {a \in Addresses : labels = <<a>>}

DomainMatches(labels, domain) ==
    \/ labels = domain.host
    \/ /\ domain.subdomains /\ Len(labels) > Len(domain.host)
       /\ \A i \in DOMAIN domain.host : labels[i] = domain.host[i]

RuleFor(purpose) == {r \in Rules : r.purpose = purpose}

\* What a rule lets a host be: the addresses a literal is pinned to, or none yet.
LetsHost(rule, labels) ==
    /\ labels \notin MetadataHosts
    /\ IF Literals(labels) # {}
       THEN /\ rule.allow_ip_literals
            /\ Literals(labels) \subseteq rule.literals \ Blocked
       ELSE \E d \in rule.domains : DomainMatches(labels, d)

\* authorize.
Allows(request) ==
    \E rule \in RuleFor(request.purpose) :
        /\ request.scheme \in rule.schemes
        /\ ~request.tainted
        /\ request.data_class <= rule.max_data_class
        /\ LetsHost(rule, CanonicalHost(request.host))

\* allow.
Authorization(request) ==
    [purpose |-> request.purpose, host |-> CanonicalHost(request.host), port |-> request.port,
     allowed_addresses |-> Literals(CanonicalHost(request.host))]

Init == authorization = {} /\ asked = {} /\ resolved = {} /\ link = {}

Issue(request) ==
    /\ authorization' = {Authorization(request)}
    /\ resolved' = {} /\ link' = {}

Authorize(request) ==
    /\ Allows(request)
    /\ Issue(request)
    /\ asked' = {request}

\* validate_resolution: all of the addresses or none, and they replace the pins.
ValidateResolution(a, host, addresses) ==
    /\ a.host = CanonicalHost(host)
    /\ addresses # {} /\ addresses \cap Blocked = {}
    /\ authorization' = {[a EXCEPT !.allowed_addresses = addresses]}
    /\ resolved' = addresses /\ link' = {}
    /\ UNCHANGED asked

\* authorize_redirect: the redirect is the rule's of the authorization, the
\* new authorization that of the next request, not resolved yet.
AuthorizeRedirect(a, next) ==
    /\ \E rule \in RuleFor(a.purpose) : rule.redirect = "SameHost"
    /\ CanonicalHost(next.host) = a.host
    /\ Allows(next)
    /\ Issue(next)
    /\ UNCHANGED asked

\* Mutant: the pins are not looked at.
VerifyUnpinned(a, host, port, address) ==
    /\ a.host = CanonicalHost(host) /\ a.port = port
    /\ address \notin Blocked
    /\ authorization' = {[a EXCEPT !.allowed_addresses = {address}]}
    /\ link' = {[host |-> CanonicalHost(host), port |-> port, address |-> address]}
    /\ UNCHANGED <<asked, resolved>>

\* verify_connection: of an authorization without pins the range decides; its
\* answer is an authorization of the one address.
VerifyConnection(a, host, port, address) ==
    /\ a.host = CanonicalHost(host) /\ a.port = port
    /\ a.allowed_addresses = {} \/ address \in a.allowed_addresses
    /\ address \notin Blocked
    /\ authorization' = {[a EXCEPT !.allowed_addresses = {address}]}
    /\ link' = {[host |-> CanonicalHost(host), port |-> port, address |-> address]}
    /\ UNCHANGED <<asked, resolved>>

Next ==
    \/ \E r \in EgressRequests : Authorize(r)
    \/ \E a \in authorization :
        \/ \E h \in Hosts, s \in SUBSET Addresses : ValidateResolution(a, h, s)
        \/ \E r \in EgressRequests : AuthorizeRedirect(a, r)
        \/ \E r \in EgressRequests, address \in Addresses :
            VerifyConnection(a, r.host, r.port, address)

Spec == Init /\ [][Next]_vars

-----------------------------------------------------------------------------

TypeOK ==
    /\ \A a \in authorization : a.allowed_addresses \subseteq Addresses
    /\ asked \subseteq EgressRequests
    /\ resolved \subseteq Addresses
    /\ \A l \in link : l.address \in Addresses

\* authorize, validate_resolution, authorize_redirect and verify_connection,
\* in any order: whatever is connected to stands at the host and port of an
\* authorization whose purpose lets that host be reached, is in no blocked
\* range, and is an address last validated or the literal asked for; a name that
\* was not resolved leaves any address outside those ranges; redirects end at the
\* host first asked for.
ConnectionIsCovered ==
    /\ \A l \in link, a \in authorization :
        /\ l.host = a.host /\ l.port = a.port
        /\ l.address \notin Blocked
        /\ \E rule \in RuleFor(a.purpose) : LetsHost(rule, l.host)
        /\ resolved # {} => l.address \in resolved
        /\ Literals(l.host) # {} /\ resolved = {} => l.address \in Literals(l.host)
    /\ \A a \in authorization : resolved # {} => a.allowed_addresses \cap Blocked = {}
    /\ \A r \in asked, a \in authorization : a.host = CanonicalHost(r.host)

\* "The only addresses a transport may connect to; empty while the host is
\* unresolved (resolution must then be validated first)" (lib.rs): a connection
\* is to a literal or after a resolution.
ResolvedFirst == \A l \in link : Literals(l.host) # {} \/ resolved # {}
=============================================================================
