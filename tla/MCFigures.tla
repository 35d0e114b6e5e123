----------------------------- MODULE MCFigures -----------------------------
(* A household at the end of March 2026, whose tax year starts on 1 April    *)
(* or on 17 March.                                                           *)
EXTENDS Figures
D(y, m, d) == Day(y, m, d)
MCDays == {D(2026, 3, 31), D(2026, 4, 2)}
MCTaxes == {[month |-> 4, day |-> 1], [month |-> 3, day |-> 17]}
MCShown == {"fortnight", "month", "quarter"}
Row(date, amount, group, category, merchant) ==
    [date |-> date, taxYear |-> 0, amount |-> amount, group |-> group, category |-> category,
     merchant |-> merchant, currency |-> "NZD", transfer |-> FALSE]
Pay == Row(0, 900, PeriodicIncome, "Salary", "Employer")
Dollars == [Row(0, -40, "Food", "Groceries", "Market") EXCEPT !.currency = "AUD"]
\* By id: pay, groceries, rent, a refund, unsorted rows, a transfer and some dust.
MCBatches == <<
    (1 :> [Pay EXCEPT !.date = D(2026, 3, 26)]) @@
    (2 :> [Dollars EXCEPT !.date = D(2026, 3, 29)]) @@
    (3 :> Row(D(2026, 2, 28), -300, "Housing", "Rent", "Landlord")) @@
    (4 :> Row(D(2026, 3, 17), -300, "Housing", "Rent", "Landlord")) @@
    (5 :> Row(D(2025, 3, 31), 120, Unset, Unset, Unset)),
    (6 :> Row(D(2026, 3, 30), 15, "Food", "Groceries", "Other market")) @@
    (7 :> Row(D(2026, 3, 29), -60, "Food", Unset, Unset)) @@
    (8 :> Row(D(2026, 3, 28), 25, OtherIncomeGroup, "Interest", "Bank")) @@
    (9 :> [Row(D(2026, 3, 30), -500, Unset, Unset, Unset) EXCEPT !.transfer = TRUE]) @@
    (12 :> Row(D(2026, 3, 28), -35, OtherIncomeGroup, "Interest reversed", "Bank")) @@
    (10 :> Row(D(2026, 3, 30), -5, "Leisure", "Games", "Arcade")) @@
    (11 :> Row(D(2026, 3, 29), -1400, "Transport", "Car", "Dealer")) >>
MCMovable == {5}
MCMovedTo == {2026}
Item(amount, frequency, interval, anchor, group, category) ==
    [amount |-> amount, currency |-> "NZD", frequency |-> frequency, interval |-> interval,
     anchor |-> anchor, group |-> group, category |-> category, merchant |-> Unset]
MCPlans ==
    ("home" :> [base |-> Unset, starts |-> Open, ends |-> D(2026, 3, 20), yearly |-> FALSE,
                forecast |-> TRUE, name |-> 2,
                items |-> <<Item(900, "week", 2, D(2026, 3, 26), PeriodicIncome, "Salary"),
                            Item(-300, "month", 1, D(2026, 1, 31), "Housing", "Rent")>>]) @@
    ("summer" :> [base |-> "home", starts |-> D(2025, 12, 15), ends |-> D(2026, 1, 10), yearly |-> TRUE,
                  forecast |-> FALSE, name |-> 3,
                  items |-> <<Item(-70, "day", 3, D(2025, 12, 1), "Leisure", Unset)>>]) @@
    ("lean" :> [base |-> Unset, starts |-> D(2026, 2, 1), ends |-> Open, yearly |-> FALSE,
                forecast |-> TRUE, name |-> 1,
                items |-> <<Item(-90, "week", 1, D(2026, 3, 30), "Food", Unset),
                            Item(-400, "quarter", 1, D(2025, 10, 31), "Utilities", "Power"),
                            Item(60, "once", 1, D(2026, 4, 22), OtherIncomeGroup, "Interest"),
                            Item(50, "once", 1, D(2026, 3, 31), OtherIncomeGroup, "Interest")>>])
\* The lean budget spends the money, is rescued once, and then draws all of the credit.
MCAccounts == <<[type |-> "CHECKING", currency |-> "NZD", current |-> 200, available |-> 700, limit |-> 500],
                [type |-> "KIWISAVER", currency |-> "NZD", current |-> 9000, available |-> Absent, limit |-> Absent],
                [type |-> "FOREIGN", currency |-> "AUD", current |-> 100, available |-> 100, limit |-> Absent]>>
MCFx == [display |-> "NZD", rates |-> {[currency |-> "AUD", day |-> D(2026, 1, 1), rate |-> 2]}]
Habit(amount, frequency, interval, anchor, late, parted) ==
    [amount |-> amount, frequency |-> frequency, interval |-> interval, anchor |-> anchor,
     late |-> late, parted |-> parted]
MCHabits == {Habit(-12, "week", 1, D(2026, 3, 26), 1, FALSE), Habit(900, "week", 2, D(2026, 3, 20), 0, TRUE),
             Habit(-300, "month", 1, D(2026, 1, 28), 2, FALSE), Habit(-80, "quarter", 1, D(2025, 9, 15), 0, FALSE),
             Habit(-25, "month", 2, D(2026, 1, 5), 0, TRUE), Habit(-45, "month", 6, D(2025, 11, 11), 0, FALSE)}
=============================================================================
