---------------------------- MODULE DialersProofs ----------------------------
(***************************************************************************)
(* Proofs about Dialers, for any host keys, any number of dials and every  *)
(* URI and machine of the model: credentials are tried in their order, and *)
(* if known_hosts can be written, nobody is connected to a server that has *)
(* not proved who it is, and a host key once trusted stays the only one.   *)
(***************************************************************************)
EXTENDS Dialers, FiniteSetTheorems, TLAPS

\* The dialer is the one the URI asks for, and only one for ssh authenticates.
Chosen ==
    /\ dialer = IF phase = "uri" THEN Invalid ELSE DialerForURI(uri)
    /\ phase = "authenticate" => dialer.k = "ssh"

\* Behind the handshake of a verifying dialer the server is the right one.
ServerKnown ==
    /\ phase = "connected" /\ dialer.k = "tls" /\ ~dialer.insecure =>
           FoundCa /\ tls.signer = "ca" /\ tls.verdict = 1
    /\ phase \in {"authenticate", "connected"} /\ dialer.k = "ssh" /\ ~dialer.ignore => Matches

\* The file has every key that was ever trusted, and there is at most one.
FileKeepsKeys ==
    /\ known = trusted
    /\ known # {} => exists
    /\ \A a, b \in known : a = b

DialersInv == Chosen /\ ServerKnown /\ FileKeepsKeys

LEMMA DialersInit == Init => DialersInv
  BY DEF Init, DialersInv, Chosen, ServerKnown, FileKeepsKeys, Invalid

\* CheckHostKey trusts a new key only if there was none, and writes it down.
LEMMA CheckHostKeyStep ==
    ASSUME Writable, DialersInv, CheckHostKey
    PROVE  DialersInv'
  <1> USE DEF DialersInv
  <1>1. /\ UNCHANGED <<uri, tls, dialer, hostKey>>
        /\ phase = "handshake" /\ dialer.k = "ssh"
        /\ phase' \in {"authenticate", "ready"}
    BY DEF CheckHostKey, world
  <1>2. Chosen'
    BY <1>1 DEF Chosen
  <1>3. FileKeepsKeys' /\ (phase' = "authenticate" /\ ~dialer.ignore => Matches')
    <2>1. CASE dialer.ignore
      BY <2>1 DEF CheckHostKey, FileKeepsKeys
    <2>2. CASE ~dialer.ignore /\ Matches
      BY <1>1, <2>2 DEF CheckHostKey, FileKeepsKeys, Matches
    <2>3. CASE ~dialer.ignore /\ ~Matches /\ Unknown /\ dialer.accept
      <3>1. known = {}
        BY <2>3 DEF FileKeepsKeys, Unknown
      <3>2. exists' = TRUE /\ known' = {hostKey} /\ trusted' = {hostKey}
        BY <2>3, <3>1 DEF CheckHostKey, AppendKnownHost, FileKeepsKeys
      <3> QED BY <1>1, <3>2 DEF FileKeepsKeys, Matches
    <2>4. CASE ~dialer.ignore /\ ~Matches /\ ~(Unknown /\ dialer.accept)
      BY <2>4 DEF CheckHostKey, FileKeepsKeys
    <2> QED BY <2>1, <2>2, <2>3, <2>4
  <1>4. ServerKnown'
    BY <1>1, <1>3 DEF ServerKnown
  <1> QED BY <1>2, <1>3, <1>4

\* Every step preserves the invariant.
LEMMA DialersStep ==
    ASSUME Writable, DialersInv, [Next]_vars
    PROVE  DialersInv'
  <1> USE DEF DialersInv
  <1>1. CASE Open
    <2>1. UNCHANGED <<uri, exists, known, trusted>> /\ phase' \in {"refused", "ready"}
      BY <1>1 DEF Open, world
    <2> QED BY <1>1, <2>1 DEF Open, Chosen, ServerKnown, FileKeepsKeys
  <1>2. CASE Dial
    BY <1>2 DEF Dial, world, Chosen, ServerKnown, FileKeepsKeys
  <1>3. CASE ConnectPlain
    BY <1>3 DEF ConnectPlain, Plain, world, Chosen, ServerKnown, FileKeepsKeys
  <1>4. CASE TlsHandshake
    <2>1. /\ UNCHANGED <<uri, tls, dialer, exists, known, trusted>>
          /\ phase = "handshake" /\ dialer.k = "tls"
          /\ phase' \in {"connected", "ready"}
      BY <1>4 DEF TlsHandshake, world
    <2>2. phase' = "connected" /\ ~dialer.insecure =>
              FoundCa /\ tls.signer = "ca" /\ tls.verdict = 1
      BY <1>4 DEF TlsHandshake, CaCerts, Roots
    <2>3. FoundCa' = FoundCa
      BY <2>1 DEF FoundCa, SearchPath
    <2> QED BY <2>1, <2>2, <2>3 DEF Chosen, ServerKnown, FileKeepsKeys
  <1>5. CASE CheckHostKey
    BY <1>5, CheckHostKeyStep
  <1>6. CASE Authenticate
    <2>1. /\ UNCHANGED <<uri, tls, dialer, hostKey, exists, known, trusted>>
          /\ phase = "authenticate" /\ dialer.k = "ssh"
          /\ phase' \in {"connected", "ready"}
      BY <1>6 DEF Authenticate, world, Chosen
    <2> QED BY <2>1 DEF Chosen, ServerKnown, FileKeepsKeys, Matches
  <1>7. CASE LoseConnection
    BY <1>7 DEF LoseConnection, Lose, world, Chosen, ServerKnown, FileKeepsKeys
  <1>8. CASE ChangeHostKey
    BY <1>8 DEF ChangeHostKey, world, Chosen, ServerKnown, FileKeepsKeys
  <1>9. CASE UNCHANGED vars
    BY <1>9 DEF vars, world, Chosen, ServerKnown, FileKeepsKeys, FoundCa, SearchPath, Matches
  <1> QED BY <1>1, <1>2, <1>3, <1>4, <1>5, <1>6, <1>7, <1>8, <1>9 DEF Next

LEMMA DialersInvariance ==
    ASSUME Writable
    PROVE  Spec => []DialersInv
  BY DialersInit, DialersStep, PTL DEF Spec

\* A dialer that does not verify was asked for by a URI that waives it.
LEMMA OnlyWaived ==
    ASSUME DialersInv, phase = "connected", ~Waived
    PROVE  /\ dialer.k = "tls" => ~dialer.insecure
           /\ dialer.k = "ssh" => ~dialer.ignore
  <1>1. dialer = DialerForURI(uri)
    BY DEF DialersInv, Chosen
  <1>2. ASSUME dialer.k = "tls" PROVE ~dialer.insecure
    <2>1. Transport(uri) = "tls" /\ dialer = TlsDialer(uri) /\ ~NoVerifyInvalid(uri)
      BY <1>1, <1>2 DEF DialerForURI, Invalid, Plain, SshDialer
    <2>2. dialer.insecure = NoVerify(uri)
      BY <2>1 DEF TlsDialer
    <2> QED BY <2>1, <2>2 DEF Waived, NoVerify, NoVerifyInvalid, Numbers
  <1>3. ASSUME dialer.k = "ssh" PROVE ~dialer.ignore
    <2>1. CASE Transport(uri) = "libssh"
      <3>1. dialer.ignore = (uri.known_hosts_verify = "ignore")
        BY <1>1, <1>3, <2>1 DEF DialerForURI, Invalid, SshDialer
      <3> QED BY <2>1, <3>1 DEF Waived
    <2>2. CASE Transport(uri) = "ssh"
      <3>1. dialer.ignore = NoVerify(uri) /\ ~NoVerifyInvalid(uri)
        BY <1>1, <1>3, <2>2 DEF DialerForURI, Invalid, SshDialer, SshInvalid
      <3> QED BY <2>2, <3>1 DEF Waived, NoVerify, NoVerifyInvalid, Numbers
    <2>3. Transport(uri) \in {"libssh", "ssh"}
      BY <1>1, <1>3 DEF DialerForURI, Invalid, Plain, TlsDialer
    <2> QED BY <2>1, <2>2, <2>3
  <1> QED BY <1>2, <1>3

\* Nobody is connected to a server that has not proved who it is, unless the URI
\* waives that (caCerts, verifying handshakes, checkHostKey).
THEOREM ServersVerified ==
    ASSUME Writable
    PROVE  Spec => []ServerVerified
  <1>1. DialersInv => ServerVerified
    BY OnlyWaived DEF DialersInv, ServerKnown, ServerVerified
  <1> QED BY <1>1, DialersInvariance, PTL

\* A host key that has been trusted is the only one that ever is (checkHostKey,
\* appendKnownHost).
THEOREM KeysPinned ==
    ASSUME Writable
    PROVE  Spec => []KeyPinned
  <1>1. DialersInv => KeyPinned
    <2> SUFFICES ASSUME FileKeepsKeys PROVE KeyPinned
      BY DEF DialersInv
    <2>1. CASE trusted = {}
      BY <2>1, FS_EmptySet DEF KeyPinned
    <2>2. ASSUME NEW a \in trusted PROVE KeyPinned
      <3>1. trusted = {a}
        BY <2>2 DEF FileKeepsKeys
      <3>2. Cardinality({a}) = 1
        BY FS_Singleton
      <3> QED BY <3>1, <3>2 DEF KeyPinned
    <2> QED BY <2>1, <2>2
  <1> QED BY <1>1, DialersInvariance, PTL

(***************************************************************************)
(* Types, and the order of credentials.                                    *)
(***************************************************************************)
\* What is chosen at the start: lists of methods, and credentials.
Worlds == DOMAIN uri.sshauth \subseteq Nat /\ ssh.has \subseteq Credentials

TypesInv == TypeOK /\ Chosen /\ Worlds

LEMMA KindsOfDialers ==
    ASSUME NEW u
    PROVE  /\ DialerForURI(u).k \in {"invalid", "plain", "tls", "ssh"}
           /\ DialerForURI(u).k = "ssh" => DialerForURI(u).auth \in {u.sshauth, DefaultAuth}
  BY DEF DialerForURI, Invalid, Plain, TlsDialer, SshDialer

LEMMA ListsOfMethods == ASSUME NEW u \in Uris PROVE DOMAIN u.sshauth \subseteq Nat
  <1>1. u.sshauth \in {<<>>} \cup Priorities
    <2>1. CASE u \in With([AnyUri EXCEPT !.host = BOOLEAN])
      BY <2>1 DEF With, AnyUri
    <2>2. CASE u \in With([AnyUri EXCEPT !.transport = {"unix", "tcp", "bogus"},
                                         !.mode = {"", "legacy", "direct"}])
      BY <2>2 DEF With, AnyUri
    <2>3. CASE u \in With([AnyUri EXCEPT !.transport = {"tls"},
                                         !.no_verify = NumberOption, !.pkipath = BOOLEAN])
      BY <2>3 DEF With, AnyUri
    <2>4. CASE u \in With([AnyUri EXCEPT !.transport = {"ssh", "libssh"},
                                         !.no_verify = NumberOption,
                                         !.known_hosts_verify = VerifyOption])
      BY <2>4 DEF With, AnyUri
    <2>5. CASE u \in With([AnyUri EXCEPT !.transport = {"ssh", "libssh"},
                                         !.known_hosts_verify = {"", "auto"},
                                         !.sshauth = Priorities])
      BY <2>5 DEF With, AnyUri
    <2> QED BY <2>1, <2>2, <2>3, <2>4, <2>5 DEF Uris
  <1> QED BY <1>1 DEF Priorities

LEMMA TypesInit == Init => TypesInv
  <1> SUFFICES ASSUME Init PROVE TypesInv
    OBVIOUS
  <1>1. ssh.has \subseteq Credentials
    <2>1. ssh \in SshWorlds \/ ssh = NoSsh
      BY DEF Init
    <2> QED BY <2>1 DEF SshWorlds, NoSsh
  <1>2. DOMAIN uri.sshauth \subseteq Nat
    BY ListsOfMethods DEF Init
  <1>3. known \subseteq {FirstKey} /\ (known # {} => exists) /\ trusted = known
    BY DEF Init
  <1>4. TypeOK
    <2>1. dialer.k = "invalid" /\ phase = "uri" /\ dials = 0 /\ hostKey = FirstKey /\ used = ""
      BY DEF Init, Invalid
    <2>2. known \subseteq trusted /\ trusted \subseteq HostKeys
      BY <1>3, HostKeysAssumption
    <2>3. dials \in 0..MaxDials
      <3>1. dials = 0
        BY <2>1
      <3> QED BY <3>1, MaxDialsAssumption
    <2>4. hostKey \in HostKeys
      BY <2>1, HostKeysAssumption
    <2> QED BY <1>3, <2>1, <2>2, <2>3, <2>4 DEF TypeOK
  <1> QED BY <1>1, <1>2, <1>4 DEF Init, TypesInv, Chosen, Worlds, Invalid

LEMMA TypesStep == ASSUME TypesInv, [Next]_vars PROVE TypesInv'
  <1> USE DEF TypesInv
  <1>1. CASE Open
    <2>1. phase' \in {"refused", "ready"} /\ dialer' = DialerForURI(uri)
      BY <1>1 DEF Open
    <2> QED BY <1>1, <2>1, KindsOfDialers DEF Open, world, TypeOK, Chosen, Worlds
  <1>2. CASE Dial
    <2>1. /\ UNCHANGED <<uri, ssh, dialer, hostKey, exists, known, trusted, used>>
          /\ phase = "ready" /\ phase' \in {"handshake", "ready"}
          /\ dials < MaxDials /\ dials' = dials + 1
      BY <1>2 DEF Dial, world
    <2>2. dials' \in 0..MaxDials
      <3>1. dials \in 0..MaxDials
        BY DEF TypeOK
      <3> QED BY <2>1, <3>1, MaxDialsAssumption
    <2> QED BY <2>1, <2>2 DEF TypeOK, Chosen, Worlds
  <1>3. CASE ConnectPlain
    <2>1. /\ UNCHANGED <<uri, ssh, dialer, dials, hostKey, exists, known, trusted, used>>
          /\ phase = "handshake" /\ phase' = "connected" /\ dialer.k = "plain"
      BY <1>3 DEF ConnectPlain, Plain, world
    <2> QED BY <2>1 DEF TypeOK, Chosen, Worlds
  <1>4. CASE TlsHandshake
    <2>1. /\ UNCHANGED <<uri, ssh, dialer, dials, hostKey, exists, known, trusted, used>>
          /\ phase = "handshake" /\ dialer.k = "tls"
          /\ phase' \in {"connected", "ready"}
      BY <1>4 DEF TlsHandshake, world
    <2> QED BY <2>1 DEF TypeOK, Chosen, Worlds
  <1>5. CASE CheckHostKey
    <2>1. /\ UNCHANGED <<uri, ssh, dialer, dials, hostKey, used>>
          /\ phase = "handshake" /\ dialer.k = "ssh"
          /\ phase' \in {"authenticate", "ready"}
      BY <1>5 DEF CheckHostKey, world
    <2>2. /\ known' \subseteq trusted' /\ trusted' \subseteq trusted \cup {hostKey}
          /\ known' # {} => exists'
      BY <1>5 DEF CheckHostKey, AppendKnownHost, TypeOK
    <2> QED BY <2>1, <2>2 DEF TypeOK, Chosen, Worlds
  <1>6. CASE Authenticate
    <2>1. /\ UNCHANGED <<uri, ssh, dialer, dials, hostKey, exists, known, trusted>>
          /\ phase = "authenticate" /\ dialer.k = "ssh"
          /\ \/ phase' = "ready" /\ used' = used
             \/ phase' = "connected" /\ used' \in ssh.has
      BY <1>6 DEF Authenticate, world, Chosen, Accepted, Usable
    <2>2. "" \notin ssh.has
      BY DEF Worlds, Credentials
    <2> QED BY <2>1, <2>2 DEF TypeOK, Chosen, Worlds
  <1>7. CASE LoseConnection
    BY <1>7 DEF LoseConnection, Lose, world, TypeOK, Chosen, Worlds
  <1>8. CASE ChangeHostKey
    BY <1>8 DEF ChangeHostKey, world, TypeOK, Chosen, Worlds
  <1>9. CASE UNCHANGED vars
    BY <1>9 DEF vars, world, TypeOK, Chosen, Worlds
  <1> QED BY <1>1, <1>2, <1>3, <1>4, <1>5, <1>6, <1>7, <1>8, <1>9 DEF Next

\* URIs, dials and keys have their types, the file has trusted keys only, and a
\* credential is used exactly while an ssh connection lasts, whether the file can be
\* written or not (ConnectToURI, Dial, checkHostKey).
THEOREM TypeCorrect == Spec => []TypeOK
  <1>1. TypesInv => TypeOK
    BY DEF TypesInv
  <1> QED BY <1>1, TypesInit, TypesStep, PTL DEF Spec

\* What is offered first of what is accepted comes first in the list as well.
LEMMA FirstInOrder ==
    ASSUME TypesInv, phase = "authenticate", ~PasswordBetween,
           NEW i \in Accepted, \A j \in Accepted \ {i} : OfferedBefore(i, j)
    PROVE  \A j \in Accepted : i <= j
  <1>1. DOMAIN dialer.auth \subseteq Nat
    <2>1. DOMAIN DefaultAuth \subseteq Nat
      BY DEF DefaultAuth
    <2> QED BY <2>1, KindsOfDialers DEF TypesInv, Chosen, Worlds
  <1>2. \A h \in Usable : /\ h \in DOMAIN dialer.auth /\ h \in Nat
                          /\ IsSigner(h) \/ dialer.auth[h] = "password"
    BY <1>1 DEF Usable, IsSigner, TypesInv, Worlds, Credentials
  <1>3. Accepted \subseteq Usable
    BY DEF Accepted
  <1> SUFFICES ASSUME NEW j \in Accepted, j < i PROVE FALSE
    BY <1>2, <1>3
  <1>4. j # i /\ i \in Nat /\ j \in Nat /\ ~(i < j)
    BY <1>2, <1>3
  <1>5. OfferedBefore(i, j)
    BY <1>4
  <1>6. PICK h \in Usable : IsSigner(i) /\ ~IsSigner(j) /\ IsSigner(h) /\ h < j
    BY <1>3, <1>4, <1>5 DEF OfferedBefore, SignersInOrder
  <1>7. /\ dialer.auth[j] = "password"
        /\ dialer.auth[h] \in {"agent", "privkey"} /\ dialer.auth[i] \in {"agent", "privkey"}
    BY <1>2, <1>3, <1>6 DEF IsSigner
  <1>8. /\ Before(dialer.auth, dialer.auth[h], "password")
        /\ Before(dialer.auth, "password", dialer.auth[i])
    BY <1>2, <1>3, <1>6, <1>7 DEF Before
  <1> QED BY <1>7, <1>8 DEF PasswordBetween

LEMMA PriorityStep ==
    ASSUME TypesInv, PriorityOrder, [Next]_vars
    PROVE  PriorityOrder'
  <1>1. CASE Authenticate
    <2>1. UNCHANGED <<ssh, dialer>> /\ phase = "authenticate"
      BY <1>1 DEF Authenticate, world
    <2>2. Accepted' = Accepted /\ PasswordBetween' = PasswordBetween
      BY <2>1 DEF Accepted, Usable, PasswordBetween
    <2>3. CASE phase' = "ready"
      BY <2>3 DEF PriorityOrder
    <2>4. ASSUME ~PasswordBetween,
                 NEW i \in Accepted, \A j \in Accepted \ {i} : OfferedBefore(i, j),
                 used' = dialer.auth[i]
          PROVE  PriorityOrder'
      <3>1. \A j \in Accepted : i <= j
        BY <2>1, <2>4, FirstInOrder
      <3> QED BY <2>1, <2>2, <2>4, <3>1 DEF PriorityOrder
    <2> QED BY <1>1, <2>2, <2>3, <2>4 DEF Authenticate, PriorityOrder
  <1>2. CASE Open
    BY <1>2 DEF Open, PriorityOrder
  <1>3. CASE Dial \/ LoseConnection \/ CheckHostKey
    <2>1. phase' # "connected"
      BY <1>3 DEF Dial, LoseConnection, Lose, CheckHostKey
    <2> QED BY <2>1 DEF PriorityOrder
  <1>4. CASE ConnectPlain \/ TlsHandshake
    <2>1. dialer'.k # "ssh"
      BY <1>4 DEF ConnectPlain, TlsHandshake, Plain
    <2> QED BY <2>1 DEF PriorityOrder
  <1>5. CASE ChangeHostKey \/ UNCHANGED vars
    <2>1. UNCHANGED <<ssh, dialer, phase, used>>
      BY <1>5 DEF ChangeHostKey, vars, world
    <2> QED BY <2>1 DEF PriorityOrder, PasswordBetween, Accepted, Usable
  <1> QED BY <1>1, <1>2, <1>3, <1>4, <1>5 DEF Next

\* The credential that connects is the first in the list of sshauth that there is and
\* that the server takes, whatever else is offered, if no password stands between agent
\* and privkey (authMethods, getSigners).
THEOREM CredentialsInOrder == Spec => []PriorityOrder
  <1>1. Init => PriorityOrder
    BY DEF Init, PriorityOrder
  <1> QED BY <1>1, TypesInit, TypesStep, PriorityStep, PTL DEF Spec
=============================================================================
