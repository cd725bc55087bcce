------------------------------- MODULE MCOffice -------------------------------
(* The business data and the groupware of the server on small instances: the  *)
(* product catalogue, the price lists, the documents, their templates, the    *)
(* calendar and the contacts.  As modelled they share no variable, so a       *)
(* behaviour chooses the one that works, and the others stay where they begin *)
(* (see MCAssistant).                                                         *)
EXTENDS Naturals, TLC

CONSTANTS Handlers, MaxFaults,
          Keys, Labels, Options, Rows, Importers, MaxProducts, MaxCategories, MaxWrites,
          ListKeys, ModelKey, Texts, EmptyCell, ListImporters, MaxRows, MaxCellEdits,
          Cards, Editors, Prices, Builtins, MaxMinted, MaxVersions, MaxEdits,
          Uids, Guests, Nowhere, MaxRequests, MaxForeign,
          Groups, Books, First, MaxCards

VARIABLES working,   \* the component of this behaviour
          products, dimensions, tombstones, parents, migrated, productImports, writes,
          columns, rows, rowImports, cellEdits,
          catalogue, docs, links, minted, copies, saves, edits, templates, seeds, docFaults,
          objects, eventRequests, invited, stored, told, eventsAsked, eventFaults, foreign,
          cards, cardRequests, made, cardsAsked, cardFaults

Catalogue == INSTANCE Catalogue WITH imports <- productImports
PriceLists == INSTANCE PriceLists WITH
    Keys <- ListKeys, Blank <- EmptyCell, Importers <- ListImporters, MaxEdits <- MaxCellEdits,
    imports <- rowImports, edits <- cellEdits
Documents == INSTANCE Documents WITH faults <- docFaults
Calendar == INSTANCE Calendar WITH
    req <- eventRequests, asked <- eventsAsked, faults <- eventFaults
Contacts == INSTANCE Contacts WITH
    req <- cardRequests, asked <- cardsAsked, faults <- cardFaults

catalogueVars == <<products, dimensions, tombstones, parents, migrated, productImports, writes>>
listVars == <<columns, rows, rowImports, cellEdits>>
documentVars == <<catalogue, docs, links, minted, copies, saves, edits, templates, seeds,
                  docFaults>>
calendarVars == <<objects, eventRequests, invited, stored, told, eventsAsked, eventFaults,
                  foreign>>
contactVars == <<cards, cardRequests, made, cardsAsked, cardFaults>>
vars == <<working, catalogueVars, listVars, documentVars, calendarVars, contactVars>>

ASSUME OfficeAssumption ==
    /\ Catalogue!CatalogueAssumption /\ PriceLists!PriceListsAssumption
    /\ Documents!DocumentsAssumption /\ Calendar!CalendarAssumption
    /\ Contacts!ContactsAssumption

Init ==
    /\ working \in {"catalogue", "lists", "documents", "templates", "calendar", "contacts"}
    /\ Catalogue!Init /\ PriceLists!Init /\ Documents!Init /\ Calendar!Init /\ Contacts!Init
    \* a component that does not work begins in one state only
    /\ working = "documents" \/ catalogue = <<(CHOOSE p \in Prices : TRUE)>>
    /\ working = "contacts" \/ (cards[1].book = First /\ cards[1].categories = {Contacts!Star})

Next ==
    \/ /\ working = "catalogue" /\ Catalogue!Next
       /\ UNCHANGED <<working, listVars, documentVars, calendarVars, contactVars>>
    \/ /\ working = "lists" /\ PriceLists!Next
       /\ UNCHANGED <<working, catalogueVars, documentVars, calendarVars, contactVars>>
    \/ /\ working = "documents" /\ Documents!DocumentNext
       /\ UNCHANGED <<working, catalogueVars, listVars, calendarVars, contactVars>>
    \/ /\ working = "templates" /\ Documents!TemplateNext
       /\ UNCHANGED <<working, catalogueVars, listVars, calendarVars, contactVars>>
    \/ /\ working = "calendar" /\ Calendar!Next
       /\ UNCHANGED <<working, catalogueVars, listVars, documentVars, contactVars>>
    \/ /\ working = "contacts" /\ Contacts!Next
       /\ UNCHANGED <<working, catalogueVars, listVars, documentVars, calendarVars>>

Spec == Init /\ [][Next]_vars

Sym == Permutations(Handlers)

\* The variables of every component keep to their values.
OfficeTypeOK ==
    CASE working = "catalogue" -> Catalogue!TypeOK
      [] working = "lists"     -> PriceLists!TypeOK
      [] working \in {"documents", "templates"} -> Documents!TypeOK
      [] working = "calendar"  -> Calendar!TypeOK
      [] working = "contacts"  -> Contacts!TypeOK

\* Attributes of products keep their meaning while dimensions are edited and merged, categories
\* stay a tree, and an old price row becomes a product once (products.go, product_dimensions.go).
CatalogueIsSound ==
    working = "catalogue" =>
        Catalogue!SharedMeaning /\ Catalogue!CategoriesAreTree /\ Catalogue!ImportedOnce

\* No price row holds text in a column the list does not show (price_list.go).
NothingInvisible == working = "lists" => PriceLists!NothingInvisible

\* A price in a stored document is one the catalogue had (documents.go).
PricesHaveSource == working = "documents" => Documents!PricesHaveSource

\* What was offered stays what it was: a version of a product that an offer quotes names what
\* was offered, an accepted save of a document discards nobody's edit, and a deleted document
\* or template stays deleted (product_catalog.go, documents.go, ai_chat_document_links.go).
OffersAreKept ==
    [][/\ working = "catalogue" => Catalogue!VersionNamesOffer
       /\ working = "documents" => Documents!NoLostEdit
       /\ working \in {"documents", "templates"} => Documents!DeletedStaysDeleted]_vars

\* A guest is invited only to a meeting that was stored, and a shown answer was told to the
\* organizer (calendar.go).
MeetingsAgree == working = "calendar" => Calendar!MeetingsAgree

\* An edit of an event reaches that event and leaves no second copy; renaming or deleting a
\* group loses no member card, and an import overwrites none (calendar.go, caldav.go,
\* contacts_groups.go, contacts_ie.go).
GroupwareIsKept ==
    [][/\ working = "calendar" => Calendar!EditsNeverFork
       /\ working = "contacts" => Contacts!MembersSurvive /\ Contacts!ImportsAdd]_vars
=============================================================================
