----------------------------- MODULE CatalogImports -----------------------------
(***************************************************************************)
(* The commands that fill the catalog (apps/api/src/catalog/cli.ts) on the *)
(* cards of one set: the importer of the official editions (myl-tor), the  *)
(* demo pack (myl-demo/import-myl.ts), the reference fixtures, the Scryfall *)
(* and Pokemon importers, and the prune of cards without an image.  They   *)
(* are run by hand, may overlap, may die at any point and are run again.   *)
(*                                                                         *)
(* A printing is a card of the source.  A row is known by its number and   *)
(* name ("name": the number is the name; "edid": the publisher's) and by   *)
(* its slug, a pair of a base and the suffix that makes it unique.         *)
(***************************************************************************)
EXTENDS Naturals, FiniteSets, FiniteSetsExt

CONSTANTS MylCard, ApiCard,  \* the printings of a set of each of the two kinds
          Process, MaxRows, MaxSlug

VARIABLES
  game,     \* "myl" or "api": which importers write this set
  cards,    \* [1..MaxRows -> row of the cards table]
  ordered,  \* the cards with a variant in an order
  job,      \* [Process -> the command it runs]
  pruning   \* the cards a prune has read to delete, or Nobody
importVars == <<game, cards, ordered, job, pruning>>

NoRow == 0
Id == 1..MaxRows
Printing == IF game = "myl" THEN MylCard ELSE ApiCard
Nobody == {NoRow}
Kinds == {"tor", "pack", "fixture", "api"}
Sources == {"tor", "pack", "api", "submission"}
Unused == [of |-> "none", num |-> "name", slug |-> <<"none", 1>>,
           source |-> "api", art |-> FALSE, rich |-> FALSE, variant |-> FALSE,
           born |-> <<"none", 1>>]
NoJob == [kind |-> "none", force |-> FALSE, missing |-> FALSE, taken |-> {}, todo |-> {},
          at |-> "idle", of |-> "none", row |-> NoRow, conflicts |-> {}]

Live == {i \in Id : cards[i].of \in Printing}
Spare == Id \ Live

ImpTypeOK ==
    /\ game \in {"myl", "api"} /\ ordered \subseteq Id /\ pruning \subseteq Id \cup Nobody
    /\ \A i \in Live : cards[i].of \in Printing /\ cards[i].source \in Sources
    /\ \A m \in Process : /\ job[m].kind \in Kinds \cup {"none"} /\ job[m].row \in Id \cup {NoRow}
                          /\ job[m].at \in {"idle", "next", "write", "variant", "ended"}

Init ==
    /\ game \in {"myl", "api"}
    /\ cards = [i \in Id |-> Unused] /\ ordered = {} /\ pruning = Nobody
    /\ job = [m \in Process |-> NoJob]

----------------------------------------------------------------------------
(* A card's slug comes from its name.  Printings of one name and different *)
(* numbers are usual in the sets of the two APIs.                          *)
Base(p) == IF game = "api" THEN "base" ELSE p

UniqueSlug(base, taken) ==
    <<base, Min({n \in 1..MaxSlug : <<base, n>> \notin taken})>>

Slugs == {cards[i].slug : i \in Live}

NumberOf(kind) == IF kind = "tor" \/ kind = "api" THEN "edid" ELSE "name"

ByKey(p, num) == {i \in Live : cards[i].of = p /\ cards[i].num = num}
BySlug(slug) == {i \in Live : cards[i].slug = slug}
FirstOf(S) == IF S = {} THEN NoRow ELSE Min(S)

(* Only the editions' importer looks the card up by its slug first.        *)
FindExisting(kind, p) ==
    IF kind = "tor" /\ BySlug(<<Base(p), 1>>) # {} THEN FirstOf(BySlug(<<Base(p), 1>>))
    ELSE FirstOf(ByKey(p, NumberOf(kind)))

(* A row of another provenance is a conflict, unless forced.  The fixtures *)
(* and the APIs' importers overwrite whatever has the key.                 *)
MayWrite(kind, force, i) ==
    \/ i = NoRow \/ force \/ kind \in {"fixture", "api"}
    \/ kind = "tor" /\ cards[i].source \in {"tor", "pack"}
    \/ kind = "pack" /\ cards[i].source = "pack"

NeedsEnrichment(i) == i = NoRow \/ ~cards[i].art \/ ~cards[i].rich

----------------------------------------------------------------------------
(* The command reads the slugs of the set, all of them at once.            *)
Start(m, kind, force, missing) ==
    /\ job[m].at \in {"idle", "ended"} /\ pruning = Nobody
    /\ (kind = "api") = (game = "api")
    /\ force => kind \in {"tor", "pack"}
    /\ missing => kind = "tor"
    /\ job' = [job EXCEPT ![m] = [NoJob EXCEPT !.kind = kind, !.force = force,
                 !.missing = missing, !.taken = Slugs, !.todo = Printing, !.at = "next"]]
    /\ UNCHANGED <<game, cards, ordered, pruning>>

(* The next card: what the catalog has of it is read, and decides.         *)
Look(m, p) ==
    /\ job[m].at = "next" /\ p \in job[m].todo
    /\ LET i == FindExisting(job[m].kind, p)
           skipped == job[m].missing /\ ~NeedsEnrichment(i)
           conflict == ~skipped /\ ~MayWrite(job[m].kind, job[m].force, i)
       IN IF skipped \/ conflict
          THEN job' = [job EXCEPT ![m].todo = @ \ {p},
                                  ![m].conflicts = IF conflict THEN @ \cup {p} ELSE @]
          ELSE job' = [job EXCEPT ![m].todo = @ \ {p}, ![m].of = p, ![m].row = i,
                                  ![m].at = "write"]
    /\ UNCHANGED <<game, cards, ordered, pruning>>

----------------------------------------------------------------------------
(* Whether a source has the card's image: the fixtures do not, some cards  *)
(* of the editions do not, and nothing asks of those of the APIs.          *)
Images(kind) == CASE kind = "fixture" -> {FALSE} [] kind = "api" -> {TRUE} [] OTHER -> BOOLEAN

(* The row that the command writes: what it makes of i, or a new one.      *)
Written(kind, i, p, slug, art) ==
    [of |-> p, num |-> NumberOf(kind), slug |-> slug,
     source |-> CASE kind = "pack" -> "pack" [] kind = "api" -> "api" [] OTHER -> "tor",
     art |-> art \/ (kind = "pack" /\ i # NoRow /\ cards[i].art),
     rich |-> kind = "tor",
     variant |-> i # NoRow /\ cards[i].variant,
     born |-> IF i = NoRow THEN slug ELSE cards[i].born]

(* The indexes refuse a second row of a number and name, or of a slug.     *)
Clashes(i, row) == \E j \in Live \ {i} :
    cards[j].slug = row.slug \/ (cards[j].of = row.of /\ cards[j].num = row.num)

(* The row's own slug when it was found, else one that was free at Start.  *)
SlugFor_Fresh(m) == UniqueSlug(Base(job[m].of), job[m].taken)

SlugFor(m) ==
    IF job[m].row # NoRow THEN cards[job[m].row].slug
    ELSE IF job[m].kind = "fixture" THEN <<Base(job[m].of), 1>>
    ELSE UniqueSlug(Base(job[m].of), job[m].taken)

(* The editions' importer updates the row it found or creates one; the     *)
(* others upsert by number and name, which finds a row made since.         *)
Target(m) ==
    IF job[m].kind = "tor" THEN job[m].row
    ELSE FirstOf(ByKey(job[m].of, NumberOf(job[m].kind)))

Abort(m) == job' = [job EXCEPT ![m] = NoJob]

WriteCard(m) ==
    /\ job[m].at = "write"
    /\ \E art \in Images(job[m].kind) :
       LET i == Target(m)
           keeps == i # NoRow /\ job[m].kind \in {"pack", "fixture"}
           slug == IF keeps THEN cards[i].slug ELSE SlugFor(m)
           row == Written(job[m].kind, i, job[m].of, slug, art)
           at == IF i = NoRow THEN Min(Spare) ELSE i
       IN /\ i # NoRow \/ Spare # {}
          /\ IF ~Clashes(i, row)
             THEN /\ cards' = [cards EXCEPT ![at] = row]
                  /\ job' = [job EXCEPT ![m].at = "variant", ![m].row = at,
                                        ![m].taken = @ \cup {slug}]
             ELSE /\ UNCHANGED cards
                  /\ IF job[m].kind = "tor"
                     THEN job' = [job EXCEPT ![m].at = "next", ![m].of = "none", ![m].row = NoRow,
                                             ![m].conflicts = @ \cup {job[m].of}]
                     ELSE Abort(m)
    /\ UNCHANGED <<game, ordered, pruning>>

(* The default variant of the card, without which nobody can sell it.      *)
WriteVariant(m) ==
    /\ job[m].at = "variant"
    /\ cards' = [cards EXCEPT ![job[m].row].variant = TRUE]
    /\ job' = [job EXCEPT ![m].at = "next", ![m].of = "none", ![m].row = NoRow]
    /\ UNCHANGED <<game, ordered, pruning>>

End(m) ==
    /\ job[m].at = "next" /\ job[m].todo = {}
    /\ job' = [job EXCEPT ![m] = [NoJob EXCEPT
                 !.at = "ended", !.missing = job[m].missing, !.conflicts = job[m].conflicts]]
    /\ UNCHANGED <<game, cards, ordered, pruning>>

(* The provider does not answer, the database fails, the process dies.     *)
Crash(m) ==
    /\ job[m].at \in {"next", "write", "variant"} /\ Abort(m)
    /\ UNCHANGED <<game, cards, ordered, pruning>>

----------------------------------------------------------------------------
(* An approved submission is a card and its variant (Submissions).         *)
Approve(p, num) ==
    /\ Spare # {} /\ ByKey(p, num) = {}
    /\ LET slug == UniqueSlug(Base(p), Slugs)
       IN cards' = [cards EXCEPT ![Min(Spare)] =
            [of |-> p, num |-> num, slug |-> slug, source |-> "submission",
             art |-> FALSE, rich |-> FALSE, variant |-> TRUE, born |-> slug]]
    /\ UNCHANGED <<game, ordered, job, pruning>>

(* A checkout puts a listing of the card's variant in an order.            *)
Order(i) ==
    /\ i \in Live /\ cards[i].variant
    /\ ordered' = ordered \cup {i}
    /\ UNCHANGED <<game, cards, job, pruning>>

(* The prune reads the cards without image, those with a variant of which  *)
(* none is in an order, and deletes them with listings and all, in one     *)
(* transaction that a row ordered since makes fail.  It is run alone.      *)
BeginPrune ==
    /\ game = "myl" /\ pruning = Nobody
    /\ \A m \in Process : job[m].at \in {"idle", "ended"}
    /\ LET found == {i \in Live : ~cards[i].art /\ cards[i].variant /\ i \notin ordered}
       IN found # {} /\ pruning' = found
    /\ UNCHANGED <<game, cards, ordered, job>>

EndPrune ==
    /\ pruning # Nobody
    /\ cards' = IF pruning \cap ordered # {} THEN cards
               ELSE [i \in Id |-> IF i \in pruning THEN Unused ELSE cards[i]]
    /\ pruning' = Nobody
    /\ job' = [m \in Process |-> NoJob]
    /\ UNCHANGED <<game, ordered>>

Next ==
    \/ \E m \in Process :
         \/ \E kind \in Kinds, force, missing \in BOOLEAN : Start(m, kind, force, missing)
         \/ \E p \in Printing : Look(m, p)
         \/ WriteCard(m) \/ WriteVariant(m) \/ End(m) \/ Crash(m)
    \/ \E p \in Printing, num \in {"name", "edid"} : Approve(p, num)
    \/ \E i \in Id : Order(i)
    \/ BeginPrune \/ EndPrune

Spec == Init /\ [][Next]_importVars

----------------------------------------------------------------------------
(* An address a card was given stays its address (docs/19-CATALOG-IMPORT   *)
(* .md, Slugs web).                                                        *)
SlugsAreKept == \A i \in Live : cards[i].slug = cards[i].born

(* A full import that ended leaves every card it did not report as a       *)
(* conflict with its variant, however many runs died before it.            *)
ImportComplete == \A m \in Process :
    (job[m].at = "ended" /\ ~job[m].missing) =>
        \A p \in Printing \ job[m].conflicts :
            \E i \in Live : cards[i].of = p /\ cards[i].variant

(* Re-running an import (import-myl-tor.ts:124) repairs and renames        *)
(* nothing.  That it repeats nothing (docs/19-CATALOG-IMPORT.md:9) is not  *)
(* so: a card that another command renumbered gets a second row.           *)
ReimportRepairs == SlugsAreKept /\ ImportComplete
=============================================================================
