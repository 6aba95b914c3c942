----------------------------- MODULE MCServices -----------------------------
(***************************************************************************)
(* Components around folders and files that share no variable: the storage *)
(* caps, the folder tree with spaces and collaborations, grants to an      *)
(* address, share links, the copies federated instances keep and how a     *)
(* file is read back from them, the founding of federations and what users *)
(* contribute to them, the content index, folder actions, messages and     *)
(* comments.  Their behaviours are explored side by side, each from its    *)
(* own initial states: "focus" is the one that moves.  Quota is extended   *)
(* and its properties are checked as they stand there; the variables of    *)
(* any other component are Null while it is not in focus.                  *)
(***************************************************************************)
EXTENDS MCQuota

CONSTANTS
  Sharer, Folder, File, Space, Request,                   \* FolderTree
  Guest, Address, Offer, Errand,                          \* PendingGrants
  Link, Viewing, Tries,                                   \* Shares
  Local, Remote, Key, Job,                                \* PeerBlobs
  Shapes,                                                 \* Erasure
  Caller, Slug,                                           \* Founding
  Joined, Alone, Own,                                     \* Contributions
  Writer, Scanning,                                       \* ContentIndex
  Actions, Dispatch,                                      \* ActionRuns
  Mail, Commenter, Resource, Remarks, Posting, Host,      \* Messages, Comments
  Null, Gone

VARIABLES
  focus,
  folder, file, space, member, grant, req,
  guest, offer, errand, proved,
  link, ended, state, tries, view, shown,
  sharded, left, copy, owner, stored, drawn, listed, job, condemned,
  shape, placed, step, next, collected, refused, out,
  identity, federation, founder, asked,
  tie, promised, deed, whole,
  row, past, writer, worker, reused,
  config, run, dispatch, work, subject,
  mail, notice, asking,
  comment, told, announced, posting

(* Two and three fragments, each placed twice, the last one shorter; four   *)
(* and two placed once, the last one beyond the end of the ciphertext.      *)
SomeShapes == {<<2, 3, 3>>, <<3, 5, 7>>, <<4, 4, 5>>, <<2, 2, 1>>}

F == INSTANCE FolderTree WITH User <- Sharer
G == INSTANCE PendingGrants WITH Similar <- Address \X Address
S == INSTANCE Shares
B == INSTANCE PeerBlobs
E == INSTANCE Erasure
N == INSTANCE Founding
X == INSTANCE ContentIndex WITH archived <- past
A == INSTANCE ActionRuns
M == INSTANCE Messages WITH Person <- Folder
C == INSTANCE Comments WITH Person <- Commenter, Owner <- Host

(* One federation and quotas of two sizes, and two federations.             *)
K(some, size) == INSTANCE Contributions WITH Folder <- Own, Federation <- some, MaxQuota <- size

(* Null is told apart from any row and from whatever else may stand where   *)
(* it does.                                                                 *)
ASSUME NoRowIsNull ==
  /\ Null \notin K(Alone, 2)!Tie
  /\ Null \notin K(Joined, 1)!Tie
  /\ Null \notin Alone \cup Joined
  /\ Null \notin S!Row \cup Viewing
  /\ Null \notin A!Run
  /\ Null \notin G!OfferRow \cup G!Account
  /\ G!Removed \notin G!OfferRow \cup {Null}
  /\ Guest \cap Address = {}
  /\ Null \notin M!MessageRow \cup Folder \cup Mail
  /\ Null \notin C!Comment

ASSUME NoFolderIsNull ==
  /\ Null \notin F!Row \cup F!FileRow \cup F!Role \cup Folder \cup Space
  /\ Gone \notin F!Row \cup {Null}

ASSUME NoKeyIsNull == Null \notin Key \cup X!FileRow /\ B!Away \notin Key \cup {Null}

ASSUME Sizes == Tries \in Nat /\ Actions \in Nat /\ Remarks \in Nat /\ IsFiniteSet(Writer)

ASSUME HostIsOne == Host \in Commenter

(* erasureConfig refuses any other k and m (federation/erasure.ts:25), and a *)
(* ciphertext carries its nonce and tag.                                    *)
ASSUME ShapesOfFiles == \A s \in Shapes : s[1] \in Nat \ {0} /\ s[2] \in Nat \ {0} /\ s[3] \in Nat \ {0}

caps == vars  \* of Quota
tree == <<folder, file, space, member, grant, req>>
offers == <<guest, offer, errand, proved>>
links == <<link, ended, state, tries, view, shown>>
blobs == <<sharded, left, copy, owner, stored, drawn, listed, job, condemned>>
shards == <<shape, placed, step, next, collected, refused, out>>
founding == <<identity, federation, founder, asked>>
promises == <<tie, promised, deed, whole>>
index == <<row, past, writer, worker, reused>>
actions == <<config, run, dispatch, work, subject>>
mails == <<mail, notice, asking>>
comments == <<comment, told, announced, posting>>

allVars == <<focus, caps, tree, offers, links, blobs, shards, founding,
             promises, index, actions, mails, comments>>

(* The variables of a component that is not in focus.                       *)
NoTree == folder = Null /\ file = Null /\ space = Null /\ member = Null /\ grant = Null /\ req = Null
NoOffers == guest = Null /\ offer = Null /\ errand = Null /\ proved = Null
NoLinks == link = Null /\ ended = Null /\ state = Null /\ tries = Null /\ view = Null /\ shown = Null
NoBlobs ==
  /\ sharded = Null /\ left = Null /\ copy = Null /\ owner = Null /\ stored = Null
  /\ drawn = Null /\ listed = Null /\ job = Null /\ condemned = Null
NoShards ==
  /\ shape = Null /\ placed = Null /\ step = Null /\ next = Null
  /\ collected = Null /\ refused = Null /\ out = Null
NoFounding == identity = Null /\ federation = Null /\ founder = Null /\ asked = Null
NoPromises == tie = Null /\ promised = Null /\ deed = Null /\ whole = Null
NoIndex == row = Null /\ past = Null /\ writer = Null /\ worker = Null /\ reused = Null
NoActions == config = Null /\ run = Null /\ dispatch = Null /\ work = Null /\ subject = Null
NoMails == mail = Null /\ notice = Null /\ asking = Null
NoComments == comment = Null /\ told = Null /\ announced = Null /\ posting = Null

MCInit ==
  /\ focus \in {"caps", "tree", "offers", "links", "blobs", "shards", "founding",
                "quotas", "folders", "index", "actions", "mails", "comments"}
  /\ Init  \* of Quota
  /\ IF focus = "tree" THEN F!Init ELSE NoTree
  /\ IF focus = "offers" THEN G!Init ELSE NoOffers
  /\ IF focus = "links" THEN S!Init ELSE NoLinks
  /\ IF focus = "blobs" THEN B!Init ELSE NoBlobs
  /\ IF focus = "shards" THEN E!Init ELSE NoShards
  /\ IF focus = "founding" THEN N!Init ELSE NoFounding
  /\ CASE focus = "quotas" -> K(Alone, 2)!Init [] focus = "folders" -> K(Joined, 1)!Init [] OTHER -> NoPromises
  /\ IF focus = "index" THEN X!Init ELSE NoIndex
  /\ IF focus = "actions" THEN A!Init ELSE NoActions
  /\ IF focus = "mails" THEN M!Init ELSE NoMails
  /\ IF focus = "comments" THEN C!Init ELSE NoComments

MCNext ==
  /\ \/ focus = "caps" /\ Next
     \/ focus = "tree" /\ F!Next
     \/ focus = "offers" /\ G!Next
     \/ focus = "links" /\ S!Next
     \/ focus = "blobs" /\ B!Next
     \/ focus = "shards" /\ E!Next
     \/ focus = "founding" /\ N!Next
     \/ focus = "quotas" /\ K(Alone, 2)!Next
     \/ focus = "folders" /\ K(Joined, 1)!Next
     \/ focus = "index" /\ X!Next
     \/ focus = "actions" /\ A!Next
     \/ focus = "mails" /\ M!Next
     \/ focus = "comments" /\ C!Next
  /\ focus # "caps" => UNCHANGED caps
  /\ focus # "tree" => UNCHANGED tree
  /\ focus # "offers" => UNCHANGED offers
  /\ focus # "links" => UNCHANGED links
  /\ focus # "blobs" => UNCHANGED blobs
  /\ focus # "shards" => UNCHANGED shards
  /\ focus # "founding" => UNCHANGED founding
  /\ focus \notin {"quotas", "folders"} => UNCHANGED promises
  /\ focus # "index" => UNCHANGED index
  /\ focus # "actions" => UNCHANGED actions
  /\ focus # "mails" => UNCHANGED mails
  /\ focus # "comments" => UNCHANGED comments
  /\ UNCHANGED focus

MCSpec == MCInit /\ [][MCNext]_allVars

(* The components share their model values, so that the group stays small.  *)
Symmetry ==
  Permutations(Sharer \cup Guest \cup Local \cup Writer \cup Posting)
    \cup Permutations(Folder \cup Offer \cup Errand \cup Viewing \cup Key)

(* A folder is in its parent's space, whatever is moved or deleted          *)
(* meanwhile (permissions/index.ts:84).                                     *)
OneSpacePerTree == focus = "tree" => F!OneSpacePerTree

(* A grant reaches the one the owner named, or who showed to have the very  *)
(* address the owner typed (auth/index.ts:85).                              *)
GrantsReachTheirs == focus = "offers" => G!GrantsReachTheirs

(* A burn-on-view link is shown to the viewer whose statement deleted it    *)
(* (shares/index.ts:321).                                                   *)
BurnShownOnce == focus = "links" => S!BurnShownOnce

(* A copy this instance says it has is in its store, and one copy of each  *)
(* fragment is enough to read a file back if the last fragment begins       *)
(* within the ciphertext; if it does not, the file is never read back,      *)
(* against federation/erasure.ts:5 (federation/files.ts:878).               *)
CopiesAreGood ==
  /\ focus = "blobs" => B!HeldBytes
  /\ focus = "shards" => E!AnyCopyDecodes

(* Peers are told one identity, and promised the bytes of the one folder    *)
(* that is contributed (federation/keys.ts:65, federation/folders.ts:76).   *)
PeersAreToldWhatIs ==
  /\ focus = "founding" => N!OneIdentity
  /\ focus = "quotas" => K(Alone, 2)!PromisesAgree
  /\ focus = "folders" => K(Joined, 1)!PromisesAgree

(* The text recorded for the current version is that of the current bytes   *)
(* (search/content/indexer.ts:80).                                          *)
IndexedBytes == focus = "index" => X!IndexedBytes

(* A run that is over says what became of it (actions/dispatch.ts:146).     *)
RunsTellTheTruth == focus = "actions" => A!RunsTellTheTruth

(* A thread but thread 0 stays between the two it was begun by and nobody   *)
(* but the addressee is told of a message; everyone concerned by a comment  *)
(* hears of it, but its author (messages/index.ts:275,                      *)
(* comments/index.ts:259).                                                  *)
ToldConcerned ==
  /\ focus = "mails" => M!ThreadsJoinTwo
  /\ focus = "comments" => C!ToldConcerned
=============================================================================
