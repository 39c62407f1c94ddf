CONSTANTS
    Pictures = {p1, p2}
    Null = Null
SPECIFICATION Spec
INVARIANT ListingHasItsPicture
