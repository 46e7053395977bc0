------------------------------ MODULE GitAccess ------------------------------
(***************************************************************************)
(* How both reconcilers decide whether, and with which credential, they    *)
(* may read a Git repository: the secret is fetched (controllers/utils),   *)
(* the repository is listed without and then with a credential             *)
(* (CheckAccess), and the transport credential is built from the URL form  *)
(* and the kind of credential (getAuth, sshHostKeyCallback).               *)
(*                                                                         *)
(* Strings are abstracted to what these functions test: a URL to the form  *)
(* its prefix gives it, a credential to its format, a known_hosts entry to *)
(* whether it parses and lists the server.                                 *)
(***************************************************************************)
EXTENDS Naturals

CONSTANTS
  Urls,         \* repository URLs
  UrlForm,      \* [Urls -> UrlForms], what the prefix tests see
  RemoteWants   \* [Urls -> {"nothing", "token", "key"}], what the server asks for

UrlForms == {"http", "https", "ssh", "scp", "path"}

(* The formats of a credential: no bytes, a personal access token, an       *)
(* unencrypted PEM key, a passphrase protected PEM key.                     *)
Credentials == {"empty", "token", "pem", "encryptedPem"}

(* known_hosts: nil (the baked-in files are used), an entry that lists the  *)
(* server, one that lists another host, one that does not parse.            *)
KnownHosts == {"nil", "lists", "other", "malformed"}

(* A Secret object as its two readers see it: absent, or the bytes under    *)
(* the credential key and under the known_hosts key ("noKey": no such key). *)
Secrets == [present : BOOLEAN,
            cred    : Credentials \cup {"noKey"},
            hosts   : (KnownHosts \ {"nil"}) \cup {"noKey"}]

ASSUME GitAccessConstants ==
  /\ UrlForm \in [Urls -> UrlForms]
  /\ RemoteWants \in [Urls -> {"nothing", "token", "key"}]
  \* a token only travels over HTTP, a key only over SSH, and SSH is never anonymous
  /\ \A u \in Urls :
       /\ RemoteWants[u] = "token" => UrlForm[u] \in {"http", "https"}
       /\ RemoteWants[u] = "key" <=> UrlForm[u] \in {"ssh", "scp"}

Failed(why) == [err |-> TRUE,  val |-> why]
Got(val)    == [err |-> FALSE, val |-> val]

-----------------------------------------------------------------------------
(* utils.FetchSecret: a proxy without a secretRef is an error, like an      *)
(* absent Secret and a missing key. An empty value under the key is not.    *)
FetchSecret(git, secret) ==
  IF git.secretRef /\ secret.present /\ secret.cred # "noKey"
  THEN Got(secret.cred)
  ELSE Failed("empty")

(* utils.FetchKnownHosts: nil, and no error, when no key is configured.     *)
FetchKnownHosts(git, secret) ==
  IF ~git.secretRef \/ ~git.knownHostsKey THEN Got("nil")
  ELSE IF secret.present /\ secret.hosts # "noKey" THEN Got(secret.hosts)
  ELSE Failed("nil")

-----------------------------------------------------------------------------
getURLType(url) ==
  CASE UrlForm[url] \in {"http", "https"} -> "http"
    [] UrlForm[url] \in {"ssh", "scp"}    -> "ssh"
    [] OTHER                              -> "unknown"

looksLikePrivateKey(cred) == cred \in {"pem", "encryptedPem"}

(* An entry from the Secret is used alone; without one the files baked into *)
(* the image are, which know the public hosts.                              *)
sshHostKeyCallback(hosts) ==
  IF hosts = "malformed" THEN Failed("callback") ELSE Got(hosts)

getAuth(url, cred, hosts) ==
  CASE cred = "empty" -> Failed("secret reference is empty")
    [] cred # "empty" /\ getURLType(url) = "http" ->
         IF looksLikePrivateKey(cred) THEN Failed("mismatch") ELSE Got("basic")
    [] cred # "empty" /\ getURLType(url) = "ssh" ->
         IF ~looksLikePrivateKey(cred) \/ cred = "encryptedPem"
         THEN Failed("mismatch")
         ELSE IF sshHostKeyCallback(hosts).err THEN Failed("callback")
         ELSE Got("publicKeys")
    [] OTHER -> Failed("unknown scheme")

(* The server's answer to List and to a clone with a given transport: the   *)
(* baked-in files are taken to list every host whose repositories are used  *)
(* without an entry of their own.                                           *)
Serves(url, transport, hosts) ==
  \/ RemoteWants[url] = "nothing"
  \/ RemoteWants[url] = "token" /\ transport = "basic"
  \/ RemoteWants[url] = "key" /\ transport = "publicKeys" /\ hosts \in {"nil", "lists"}

Access(accessible, requiresAuth, err) ==
  [accessible |-> accessible, requiresAuth |-> requiresAuth, err |-> err]

(* CheckAccess lists anonymously first and with the credential second; up1  *)
(* and up2 say whether the server answers each of the two calls.            *)
CheckAccess(url, cred, hosts, up1, up2) ==
  IF up1 /\ Serves(url, "nil", hosts) THEN Access(TRUE, FALSE, FALSE)
  ELSE IF getAuth(url, cred, hosts).err THEN Access(FALSE, TRUE, TRUE)
  ELSE IF up2 /\ Serves(url, getAuth(url, cred, hosts).val, hosts)
       THEN Access(TRUE, TRUE, FALSE)
  ELSE Access(FALSE, FALSE, TRUE)

(* Clone builds a transport only when it is given a secret: nil is no       *)
(* credential at all, not an empty one.                                     *)
CloneAuth(url, cred, hosts) ==
  IF cred = "nil" THEN Got("nil") ELSE getAuth(url, cred, hosts)
=============================================================================
