----------------------------- MODULE Countries -----------------------------
(***************************************************************************)
(* CountriesService: create is public, remove takes any user.  Each is a   *)
(* query that looks, and then one that writes.                             *)
(***************************************************************************)
EXTENDS Access

CONSTANT MaxCountries  \* bound: rows

VARIABLE countries  \* names, by id; NoValue once the row is deleted

CountriesInit == countries = <<>>

LiveCountries == {id \in DOMAIN countries : countries[id] # NoValue}

\* Mutant: the country that exists is not looked for.
Unused(name) == TRUE

IsNewName(name) == \A id \in LiveCountries : countries[id] # name

FindCountryNamed(h) ==
    /\ pc[h] = "createCountry"
    /\ \/ IsNewName(request[h].name) /\ Await(h, "insertCountry")
       \/ ~IsNewName(request[h].name) /\ Answer(h, "badRequest")
    /\ UNCHANGED <<account, countries>>

InsertCountry(h) ==
    /\ pc[h] = "insertCountry"
    /\ countries' = Append(countries, request[h].name)
    /\ AnswerCommitted(h, "created")
    /\ UNCHANGED account

\* A missing row is a 500, since the filter for it is not registered.
FindCountry(h) ==
    /\ pc[h] = "removeCountry"
    /\ \/ request[h].country \in LiveCountries /\ Await(h, "deleteCountry")
       \/ request[h].country \notin LiveCountries /\ Answer(h, "serverError")
    /\ UNCHANGED <<account, countries>>

\* `used`: the countries that rows of other tables refer to.  Deleting a row that
\* another request has deleted meanwhile is no error.
DeleteCountry(h, used) ==
    /\ pc[h] = "deleteCountry"
    /\ \/ /\ request[h].country \notin used
          /\ countries' = [countries EXCEPT ![request[h].country] = NoValue]
          /\ AnswerCommitted(h, "deleted")
       \/ /\ request[h].country \in used
          /\ Answer(h, "databaseError")
          /\ UNCHANGED countries
    /\ UNCHANGED account

CountryStep(h, used) ==
    \/ FindCountryNamed(h) \/ InsertCountry(h) \/ FindCountry(h) \/ DeleteCountry(h, used)
    \/ /\ Lose(h, {"createCountry", "insertCountry", "removeCountry", "deleteCountry"})
       /\ UNCHANGED countries

(***************************************************************************)
(* The look-up and the insert of a country are two transactions, and no    *)
(* constraint makes the names unique.  Still the rows of one name do not   *)
(* pile up: there are never more than requests in flight.                  *)
(***************************************************************************)
CountryNamesAreBounded ==
    \A id \in LiveCountries :
        Cardinality({other \in LiveCountries : countries[other] = countries[id]})
            <= Cardinality(Handlers)
=============================================================================
