------------------------------- MODULE Dialers -------------------------------
(***************************************************************************)
(* From a URI to an authenticated connection: dialerForURI (connect_uri.go)*)
(* chooses a dialer and its options or refuses the URI, and the dialer     *)
(* (socket/dialers) connects, again after each loss: over TLS with the     *)
(* certificates it finds, over ssh with a known_hosts file that it may     *)
(* add to and the credentials it has, locally or over TCP with nothing.    *)
(*                                                                         *)
(* The URI and the machines are chosen at the start; the server's host key *)
(* may change between two connections.                                     *)
(***************************************************************************)
EXTENDS Naturals, FiniteSets, Sequences, Functions

CONSTANTS
    HostKeys,      \* the host keys the server may have
    FirstKey,      \* the one it has at first
    MaxDials,      \* bound on the calls of Dial
    Writable       \* the known_hosts file can be written

ASSUME HostKeysAssumption == FirstKey \in HostKeys
ASSUME MaxDialsAssumption == MaxDials \in Nat
ASSUME WritableAssumption == Writable \in BOOLEAN

(***************************************************************************)
(* URIs: the transport behind the "+", whether there is a host, and the    *)
(* options that decide about verification and authentication.              *)
(***************************************************************************)
AnyUri == [transport |-> {""}, host |-> {TRUE}, mode |-> {""}, no_verify |-> {""},
           known_hosts_verify |-> {""}, sshauth |-> {<<>>}, pkipath |-> {FALSE}]
With(options) ==
    [transport : options.transport, host : options.host, mode : options.mode,
     no_verify : options.no_verify, known_hosts_verify : options.known_hosts_verify,
     sshauth : options.sshauth, pkipath : options.pkipath]

Priorities == {<<>>, <<"password">>, <<"privkey", "agent", "password">>,
               <<"password", "keyboard-interactive", "privkey">>,
               <<"password", "agent", "privkey">>, <<"bogus">>}
Numbers == {"0", "1"}
NumberOption == {"", "yes"} \cup Numbers
VerifyOption == {"", "normal", "auto", "ignore", "bogus"}

Uris ==
    With([AnyUri EXCEPT !.host = BOOLEAN])
    \cup With([AnyUri EXCEPT !.transport = {"unix", "tcp", "bogus"},
                             !.mode = {"", "legacy", "direct"}])
    \cup With([AnyUri EXCEPT !.transport = {"tls"},
                             !.no_verify = NumberOption, !.pkipath = BOOLEAN])
    \cup With([AnyUri EXCEPT !.transport = {"ssh", "libssh"},
                             !.no_verify = NumberOption, !.known_hosts_verify = VerifyOption])
    \cup With([AnyUri EXCEPT !.transport = {"ssh", "libssh"},
                             !.known_hosts_verify = {"", "auto"}, !.sshauth = Priorities])

(***************************************************************************)
(* The machines: the certificates of the client by directory, who signed   *)
(* the server's and what it makes of the client's; the client's ssh        *)
(* credentials and those the server accepts.                               *)
(***************************************************************************)
Dirs == [cert : {"none", "no key", "invalid", "good"}, ca : BOOLEAN]
Credentials == {"agent", "privkey", "password"}

NoTls == [root |-> TRUE, user |-> [cert |-> "none", ca |-> FALSE],
          system |-> [cert |-> "none", ca |-> FALSE], signer |-> "other", verdict |-> 0]
NoSsh == [has |-> {}, accepts |-> {}]
TlsWorlds == [root : BOOLEAN, user : Dirs, system : Dirs,
              signer : {"ca", "system root", "other"}, verdict : {0, 1}]
SshWorlds == [has : SUBSET Credentials, accepts : SUBSET Credentials]

VARIABLES
    uri,       \* the URI
    tls,       \* the machines, as far as TLS goes
    ssh,       \* ... and as far as ssh goes
    dialer,    \* the dialer and its options
    phase,     \* "uri", "refused", "ready", "handshake", "authenticate" or "connected"
    dials,     \* how often Dial has been called
    hostKey,   \* the server's host key
    exists,    \* there is a known_hosts file
    known,     \* the keys it has for the host
    trusted,   \* the host keys a verifying dialer has ever accepted, or found there
    used       \* the credential that connected, or ""

world == <<uri, tls, ssh>>
vars == <<world, dialer, phase, dials, hostKey, exists, known, trusted, used>>

(***************************************************************************)
(* dialerForURI.                                                           *)
(***************************************************************************)
Transport(u) ==
    IF u.transport # "" THEN u.transport ELSE IF u.host THEN "tls" ELSE "unix"

Invalid == [k |-> "invalid"]
Plain == [k |-> "plain"]

\* noVerifyOption: any value there is.
NoVerify_Present(u) == u.no_verify # ""
NoVerify(u) == u.no_verify \notin {"", "0"}
NoVerifyInvalid(u) == u.no_verify \notin {""} \cup Numbers
ModeInvalid(u) == u.mode \notin {"", "legacy", "auto"}

TlsDialer(u) == [k |-> "tls", insecure |-> NoVerify(u), pki |-> u.pkipath]

DefaultAuth == <<"agent", "privkey", "password">>
SshDialer(ignore, accept, auth) ==
    [k |-> "ssh", ignore |-> ignore, accept |-> accept, auth |-> auth]

LibsshInvalid(u) ==
    \/ ModeInvalid(u)
    \/ u.known_hosts_verify = "bogus"
    \/ "bogus" \in Range(u.sshauth)
    \/ u.no_verify # ""

SshInvalid(u) ==
    \/ ModeInvalid(u)
    \/ NoVerifyInvalid(u)
    \/ u.known_hosts_verify # "" \/ u.sshauth # <<>>

DialerForURI(u) ==
    CASE Transport(u) = "unix" -> IF ModeInvalid(u) THEN Invalid ELSE Plain
      [] Transport(u) = "tcp" -> Plain
      [] Transport(u) = "tls" -> IF NoVerifyInvalid(u) THEN Invalid ELSE TlsDialer(u)
      [] Transport(u) = "libssh" ->
            IF LibsshInvalid(u) THEN Invalid
            ELSE SshDialer(u.known_hosts_verify = "ignore", u.known_hosts_verify = "auto",
                           IF u.sshauth = <<>> THEN DefaultAuth ELSE u.sshauth)
      [] Transport(u) = "ssh" ->
            IF SshInvalid(u) THEN Invalid ELSE SshDialer(NoVerify(u), FALSE, DefaultAuth)
      [] OTHER -> Invalid

Init ==
    /\ uri \in Uris
    /\ tls \in IF Transport(uri) = "tls" THEN TlsWorlds ELSE {NoTls}
    /\ ssh \in IF Transport(uri) \in {"ssh", "libssh"} THEN SshWorlds ELSE {NoSsh}
    /\ dialer = Invalid
    /\ phase = "uri"
    /\ dials = 0
    /\ hostKey = FirstKey
    /\ exists \in IF Transport(uri) \in {"ssh", "libssh"} THEN BOOLEAN ELSE {FALSE}
    /\ known \in IF exists THEN {{}, {FirstKey}} ELSE {{}}
    /\ trusted = known
    /\ used = ""

Open ==
    /\ phase = "uri"
    /\ dialer' = DialerForURI(uri)
    /\ phase' = IF dialer' = Invalid THEN "refused" ELSE "ready"
    /\ UNCHANGED <<world, dials, hostKey, exists, known, trusted, used>>

Dial ==
    /\ phase = "ready"
    /\ dials < MaxDials
    /\ dials' = dials + 1
    /\ phase' \in {"handshake", "ready"}      \* ready: nobody answers
    /\ UNCHANGED <<world, dialer, hostKey, exists, known, trusted, used>>

ConnectPlain ==
    /\ phase = "handshake" /\ dialer = Plain
    /\ phase' = "connected"
    /\ UNCHANGED <<world, dialer, dials, hostKey, exists, known, trusted, used>>

(***************************************************************************)
(* TLS.                                                                    *)
(***************************************************************************)
\* The directories that are searched, in order; pkipath stands for both.
SearchPath == IF tls.root \/ dialer.pki THEN <<tls.system>> ELSE <<tls.user, tls.system>>

\* clientCert: the first certificate with its key, which must be valid.
Complete == SelectSeq(SearchPath, LAMBDA dir : dir.cert \in {"invalid", "good"})
ClientCert == Complete # <<>> /\ Complete[1].cert = "good"

\* caCerts: without a CA there is no pool, and none in the configuration means the
\* certificates of the system.  An error unless the server need not be verified.
FoundCa == \E dir \in Range(SearchPath) : dir.ca
CaCerts_Optional == TRUE
CaCerts == FoundCa \/ dialer.insecure
Roots == IF FoundCa THEN "ca" ELSE "system root"

\* The server says with a byte what it makes of the client's certificate.
TlsHandshake ==
    /\ phase = "handshake" /\ dialer.k = "tls"
    /\ phase' =
          IF /\ ClientCert /\ CaCerts
             /\ dialer.insecure \/ tls.signer = Roots
             /\ tls.verdict = 1
          THEN "connected" ELSE "ready"
    /\ UNCHANGED <<world, dialer, dials, hostKey, exists, known, trusted, used>>

(***************************************************************************)
(* ssh.                                                                    *)
(***************************************************************************)
\* appendKnownHost, which says nothing if it fails.
AppendKnownHost ==
    IF Writable THEN exists' = TRUE /\ known' = known \cup {hostKey}
    ELSE UNCHANGED <<exists, known>>

\* A key that differs from the one in the file is taken for an unknown one.
Unknown_Mismatch == hostKey \notin known
Unknown == ~exists \/ known = {}
Matches == exists /\ hostKey \in known

\* checkHostKey, as the callback of the handshake.
CheckHostKey ==
    /\ phase = "handshake" /\ dialer.k = "ssh"
    /\ \/ /\ dialer.ignore
          /\ phase' = "authenticate"
          /\ UNCHANGED <<exists, known, trusted>>
       \/ /\ ~dialer.ignore /\ Matches
          /\ phase' = "authenticate"
          /\ trusted' = trusted \cup {hostKey}
          /\ UNCHANGED <<exists, known>>
       \/ /\ ~dialer.ignore /\ ~Matches /\ Unknown /\ dialer.accept
          /\ phase' = "authenticate"
          /\ trusted' = trusted \cup {hostKey}
          /\ AppendKnownHost
       \/ /\ ~dialer.ignore /\ ~Matches /\ ~(Unknown /\ dialer.accept)
          /\ phase' = "ready"
          /\ UNCHANGED <<exists, known, trusted>>
    /\ UNCHANGED <<world, dialer, dials, hostKey, used>>

\* authMethods: the methods of the list, by their places in it, for which there is
\* something to offer.  Agent and privkey share the callback of the first of them that
\* has a signer, with their signers in the order of the list.
IsSigner(i) == dialer.auth[i] \in {"agent", "privkey"}
Usable == {i \in DOMAIN dialer.auth : dialer.auth[i] \in ssh.has}
SignersInOrder_Prepended(i, j) == j < i
SignersInOrder(i, j) == i < j
OfferedBefore(i, j) ==
    \/ IsSigner(i) /\ IsSigner(j) /\ SignersInOrder(i, j)
    \/ IsSigner(i) /\ ~IsSigner(j) /\ \E h \in Usable : IsSigner(h) /\ h < j
    \/ ~IsSigner(i) /\ IsSigner(j) /\ \A h \in Usable : IsSigner(h) => i < h
    \/ ~IsSigner(i) /\ ~IsSigner(j) /\ i < j

\* Those of them the server takes; the one that is offered first is used.
Accepted == {i \in Usable : dialer.auth[i] \in ssh.accepts}

Authenticate ==
    /\ phase = "authenticate"
    /\ \/ /\ Accepted = {}
          /\ phase' = "ready"
          /\ UNCHANGED used
       \/ \E i \in Accepted :
             /\ \A j \in Accepted \ {i} : OfferedBefore(i, j)
             /\ phase' = "connected"
             /\ used' = dialer.auth[i]
    /\ UNCHANGED <<world, dialer, dials, hostKey, exists, known, trusted>>

\* libvirtd's socket on the server does not take the connection, or it is lost later.
Lose_KeepsCredential == phase = "connected" /\ phase' = "ready" /\ UNCHANGED used
Lose == phase = "connected" /\ phase' = "ready" /\ used' = ""
LoseConnection == Lose /\ UNCHANGED <<world, dialer, dials, hostKey, exists, known, trusted>>

ChangeHostKey ==
    /\ phase = "ready" /\ dialer.k = "ssh"
    /\ dials < MaxDials
    /\ hostKey' \in HostKeys \ {hostKey}
    /\ UNCHANGED <<world, dialer, phase, dials, exists, known, trusted, used>>

Next ==
    \/ Open \/ Dial \/ LoseConnection
    \/ ConnectPlain \/ TlsHandshake
    \/ CheckHostKey \/ Authenticate
    \/ ChangeHostKey

Spec == Init /\ [][Next]_vars

(***************************************************************************)
(* Properties.                                                             *)
(***************************************************************************)
TypeOK ==
    /\ dialer.k \in {"invalid", "plain", "tls", "ssh"}
    /\ phase \in {"uri", "refused", "ready", "handshake", "authenticate", "connected"}
    /\ dials \in 0..MaxDials
    /\ hostKey \in HostKeys
    /\ known \subseteq trusted /\ trusted \subseteq HostKeys
    /\ known # {} => exists
    /\ used # "" <=> phase = "connected" /\ dialer.k = "ssh"

\* What a URI says about verification, in the words of libvirt's own URIs.
Waived ==
    \/ Transport(uri) \in {"tls", "ssh"} /\ uri.no_verify = "1"
    \/ Transport(uri) = "libssh" /\ uri.known_hosts_verify = "ignore"

\* Nobody is connected to a server that has not proved who it is, unless the URI waives
\* that: over TLS by the CA that is configured, and never by the system's; over ssh by
\* a host key that is in the known_hosts file by now.
ServerVerified ==
    phase = "connected" /\ ~Waived =>
        /\ dialer.k = "tls" => FoundCa /\ tls.signer = "ca" /\ tls.verdict = 1
        /\ dialer.k = "ssh" => Matches

\* A host key that has been accepted, or was known, is the only one that ever is:
\* known_hosts_verify=auto trusts the first key, also if authentication then fails.
KeyPinned == Cardinality(trusted) <= 1

\* Credentials are offered in the order of sshauth: the one that connects is the first
\* the server accepts - where no password stands between agent and privkey.
Before(s, a, b) == \E i, j \in DOMAIN s : i < j /\ s[i] = a /\ s[j] = b
PasswordBetween ==
    \E a, b \in {"agent", "privkey"} :
        Before(dialer.auth, a, "password") /\ Before(dialer.auth, "password", b)
PriorityOrder ==
    phase = "connected" /\ dialer.k = "ssh" /\ ~PasswordBetween =>
        \E i \in Accepted : used = dialer.auth[i] /\ \A j \in Accepted : i <= j
=============================================================================
