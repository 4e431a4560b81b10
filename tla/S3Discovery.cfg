\* Any sequence of edits, any request can fail.
SPECIFICATION BucketFairSpec
CONSTANTS
    Keys <- MCKeys
    Contents <- MCContents
    Broken = {"broken"}
    MaxKeys = 2
    Others = {"x", "y"}
INVARIANT FiledRight
PROPERTIES EventuallyRead FetchesEnd
