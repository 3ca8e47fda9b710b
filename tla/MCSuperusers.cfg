CONSTANTS
    Admins = {anna, ben}
    Requests = {r1, r2}
    Nobody = nobody
SPECIFICATION SuperusersSpec
INVARIANT
    SuperuserRemains
