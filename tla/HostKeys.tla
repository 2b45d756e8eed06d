------------------------------- MODULE HostKeys -------------------------------
(***************************************************************************)
(* Which host keys a program trusts (internal/sshx/hostkey.go): the first  *)
(* connection, made while the user can still be asked, and the reconnects  *)
(* behind the interface, to one host whose keys may change meanwhile.      *)
(* A key is its type and a version; the text of known_hosts is a sequence  *)
(* of keys, all of them recorded for this host.                            *)
(***************************************************************************)
EXTENDS Integers, SequencesExt

CONSTANTS
  KeyTypes,     \* the types of keys the host may have
  Versions      \* tells apart the keys of one type

\* The algorithms of the second generation of RSA are no types of keys.
ASSUME HostKeysAssumption ==
  /\ 0 \notin Versions
  /\ {"rsa-sha2-256", "rsa-sha2-512"} \cap KeyTypes = {}

VARIABLES
  known,    \* the lines of known_hosts
  server,   \* the version of the host's key of each type; 0 when it has none
  stage,    \* how far the program has come with its connection
  asks,     \* the policy, and whether there is a terminal to ask on
  snapshot, \* the lines the verification was built from
  recorded, \* the lines the algorithms were chosen from, a moment later
  offered,  \* the key the host has identified itself with
  trusted   \* the key of the last connection that came up

keysVars == <<known, server, stage, asks, snapshot, recorded, offered, trusted>>

Key == [type : KeyTypes, version : Versions]

NoKey == [type |-> "none", version |-> 0]

Policies == {"ask", "accept-new", "yes", "no"}

-----------------------------------------------------------------------------
\* The algorithms that can carry a key of a type.
SignatureAlgos(type) ==
  IF type = "ssh-rsa" THEN <<"rsa-sha2-512", "rsa-sha2-256", "ssh-rsa">>
  ELSE <<type>>

Supported == <<"ecdsa", "rsa-sha2-256", "rsa-sha2-512", "ed25519">>

Insecure == <<"ssh-rsa">>

\* Mutant: the library's order, whatever is recorded.
HostKeyAlgorithmsByDefault(policy, lines) == Supported

\* What to ask for; only the first of a repeated algorithm counts.
HostKeyAlgorithms(policy, lines) ==
  IF policy = "no" \/ lines = << >> THEN Supported
  ELSE FlattenSeq([i \in DOMAIN lines |-> SignatureAlgos(lines[i].type)])
         \o Supported \o Insecure

TypeOf(algo) == IF algo \in {"rsa-sha2-256", "rsa-sha2-512"} THEN "ssh-rsa" ELSE algo

\* No current server signs with the first generation of RSA.
Serves(algo) ==
  algo # "ssh-rsa" /\ TypeOf(algo) \in KeyTypes /\ server[TypeOf(algo)] # 0

\* The first algorithm of the client's that the server has decides.
Negotiated(algos) ==
  LET can == {i \in DOMAIN algos : Serves(algos[i])}
      t   == TypeOf(algos[CHOOSE i \in can : \A j \in can : i <= j])
  IN  IF can = {} THEN NoKey ELSE [type |-> t, version |-> server[t]]

\* Only a key of the same type says that the host's identity has changed.
Contradicts(lines, key) == \E k \in ToSet(lines) : k.type = key.type

Verdict(policy, terminal, lines, key) ==
  IF policy = "no" \/ key \in ToSet(lines) THEN "accept"
  ELSE IF Contradicts(lines, key) \/ policy = "yes" THEN "refuse"
  ELSE IF policy = "accept-new" THEN "record"
  ELSE IF terminal THEN "ask"
  ELSE "refuse"

-----------------------------------------------------------------------------
Outside == UNCHANGED <<known, server>>

Start ==
  /\ stage = "off" /\ stage' = "idle"
  /\ asks' \in [policy : Policies, terminal : BOOLEAN]
  /\ Outside /\ UNCHANGED <<snapshot, recorded, offered, trusted>>

Ready(key) == stage' = "up" /\ trusted' = key

\* A first connection fails with the program unless it waits for the host, a
\* later one is tried again.
Fails == stage' \in {"off", "idle"} /\ trusted' = trusted

\* Mutant: the verification is built once, for all connections.
HostKeyCallbackOnce ==
  /\ stage = "idle" /\ stage' = "preparing"
  /\ snapshot' = IF asks.terminal THEN known ELSE snapshot
  /\ trusted' = trusted
  /\ Outside /\ UNCHANGED <<asks, recorded, offered>>

\* The verification is built before the host is dialed, or known_hosts cannot
\* be read.
HostKeyCallback ==
  /\ stage = "idle"
  /\ \/ stage' = "preparing" /\ snapshot' = known /\ trusted' = trusted
     \/ asks.policy # "no" /\ Fails /\ snapshot' = snapshot
  /\ Outside /\ UNCHANGED <<asks, recorded, offered>>

\* The user may have been asked for a passphrase in between.  A file that
\* cannot be read records nothing.
RecordedKeys ==
  /\ stage = "preparing" /\ stage' = "dialing"
  /\ recorded' \in {known, << >>}
  /\ Outside /\ UNCHANGED <<asks, snapshot, offered, trusted>>

Handshake ==
  LET key     == Negotiated(HostKeyAlgorithms(asks.policy, recorded))
      verdict == Verdict(asks.policy, asks.terminal, snapshot, key)
  IN  /\ stage = "dialing"
      /\ offered' = key
      /\ \/ key = NoKey /\ Fails
         \/ key # NoKey /\ verdict = "refuse" /\ Fails
         \/ key # NoKey /\ verdict = "accept" /\ Ready(key)
         \/ /\ key # NoKey /\ verdict \in {"record", "ask"}
            /\ stage' = verdict /\ trusted' = trusted
      /\ Outside /\ UNCHANGED <<asks, snapshot, recorded>>

\* The user says yes or no to a key nobody knows.
Confirm ==
  /\ stage = "ask"
  /\ \/ stage' = "record" /\ trusted' = trusted
     \/ Fails
  /\ Outside /\ UNCHANGED <<asks, snapshot, recorded, offered>>

\* Mutant: a key is trusted without being recorded.
AppendNothing ==
  /\ stage = "record"
  /\ Ready(offered)
  /\ Outside /\ UNCHANGED <<asks, snapshot, recorded, offered>>

\* A key that cannot be recorded is not trusted either.
AppendKnownHost ==
  /\ stage = "record"
  /\ \/ known' = Append(known, offered) /\ Ready(offered)
     \/ known' = known /\ Fails
  /\ UNCHANGED <<server, asks, snapshot, recorded, offered>>

\* Reconnects have no terminal.
Lose ==
  /\ stage = "up" /\ stage' = "idle"
  /\ asks' = [asks EXCEPT !.terminal = FALSE]
  /\ Outside /\ UNCHANGED <<snapshot, recorded, offered, trusted>>

Leave ==
  /\ stage \in {"idle", "up"} /\ stage' = "off" /\ trusted' = NoKey
  /\ Outside /\ UNCHANGED <<asks, snapshot, recorded, offered>>

Program ==
  \/ Start \/ HostKeyCallback \/ RecordedKeys \/ Handshake \/ Confirm \/ AppendKnownHost
  \/ Lose \/ Leave

\* The host is rebuilt, or gets or gives up a key of some type.
Rekey ==
  /\ \E t \in KeyTypes, v \in Versions \cup {0} : server' = [server EXCEPT ![t] = v]
  /\ UNCHANGED <<known, stage, asks, snapshot, recorded, offered, trusted>>

\* ssh-keygen -R.
Forget ==
  /\ known' = << >>
  /\ UNCHANGED <<server, stage, asks, snapshot, recorded, offered, trusted>>

KeysNext == Program \/ Rekey \/ Forget

KeysInit ==
  /\ known = << >> /\ server \in [KeyTypes -> Versions \cup {0}]
  /\ stage = "off" /\ asks = [policy |-> "ask", terminal |-> TRUE]
  /\ snapshot = << >> /\ recorded = << >> /\ offered = NoKey /\ trusted = NoKey

KeysSpec == KeysInit /\ [][KeysNext]_keysVars

-----------------------------------------------------------------------------
KeysTypeOK ==
  /\ ToSet(known \o snapshot \o recorded) \subseteq Key
  /\ server \in [KeyTypes -> Versions \cup {0}]
  /\ stage \in {"off", "idle", "preparing", "dialing", "ask", "record", "up"}
  /\ asks \in [policy : Policies, terminal : BOOLEAN]
  /\ {offered, trusted} \subseteq Key \cup {NoKey}

(***************************************************************************)
(* While a host keeps one of the keys that are recorded of it and changes  *)
(* none of the others, and known_hosts can be read, no reconnect to it is  *)
(* refused: the program asks for the types it knows first, so the host     *)
(* does not answer with another key that nobody could be asked about       *)
(* (hostkey.go:223).                                                       *)
(***************************************************************************)
KnownHostsReconnect ==
  ( /\ stage = "dialing" /\ ~asks.terminal /\ snapshot = known /\ recorded = known
    /\ \E k \in ToSet(known) : server[k.type] = k.version
    /\ \A k \in ToSet(known) : server[k.type] \in {0, k.version} )
  => Verdict(asks.policy, asks.terminal, snapshot,
             Negotiated(HostKeyAlgorithms(asks.policy, recorded))) = "accept"

(***************************************************************************)
(* A key that contradicts a recorded one is refused whatever the policy    *)
(* that checks it, and nothing the program does ever records two keys of   *)
(* one type (hostkey.go:116, 265).                                         *)
(***************************************************************************)
OneKeyOfAType ==
  \A i, j \in DOMAIN known : known[i].type = known[j].type => i = j

(***************************************************************************)
(* The key a checked connection relies on is in known_hosts, so that the   *)
(* next one needs no answer; only the user takes it out (hostkey.go:151).  *)
(***************************************************************************)
TrustIsRecorded ==
  [][asks.policy # "no" /\ trusted' # trusted /\ trusted' # NoKey
       => trusted' \in ToSet(known') \cup ToSet(snapshot)]_keysVars
=============================================================================
