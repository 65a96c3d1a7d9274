----------------------------- MODULE PreviewUrl -----------------------------
(***************************************************************************)
(* Preview URLs: what exposePort makes of a port, the name of the sandbox  *)
(* and a token (constructPreviewUrl), and what the Worker reads from it    *)
(* again (extractSandboxRoute, getSandbox).  A URL is its first label, the *)
(* sequence of the words between hyphens.  Names may have hyphens, tokens  *)
(* have none (validateCustomToken, generatePortToken), and hostnames come  *)
(* back in lower case.                                                     *)
(***************************************************************************)
EXTENDS Naturals, Sequences

CONSTANTS
  Ports,   \* the ports validatePort allows: not 3000, which the SDK itself uses
  Tokens,
  Words,   \* the words names are made of
  lower    \* lower[w]: word w in lower case

ASSUME LowerAssumption ==
  /\ lower \in [Words -> Words]
  /\ \A w \in Words : lower[lower[w]] = lower[w] /\ (lower[w] = "" <=> w = "")

Lowercase(id) == [i \in DOMAIN id |-> lower[id[i]]]

Reserved == {<< n >> : n \in {"www", "api", "admin", "root", "system", "cloudflare", "workers"}}

\* sanitizeSandboxId accepts the name.
Sanitary(id) ==
  /\ Len(id) > 0
  /\ id[1] # "" /\ id[Len(id)] # ""
  /\ Lowercase(id) \notin Reserved

\* getSandbox: the name of the object that has the id.
ObjectOf(id, normalizeId) == IF normalizeId THEN Lowercase(id) ELSE id

\* An object has URLs unless its name has capitals and is not normalized.
HasUrls(name, normalizeId) == normalizeId \/ Lowercase(name) = name

UrlOf(port, name, token) == << port >> \o Lowercase(name) \o << token >>

\* The port is before the first hyphen, the token behind the last.  A request to
\* any other host is none of the Worker's.
IsRoute(url) ==
  /\ Len(url) > 2
  /\ url[1] \in Ports
  /\ url[Len(url)] \in Tokens
  /\ Sanitary(SubSeq(url, 2, Len(url) - 1))

RouteOf(url) ==
  [port |-> url[1], id |-> SubSeq(url, 2, Len(url) - 1), token |-> url[Len(url)]]

=============================================================================
